---- MODULE Spec2Model ----
(***************************************************************************)
(* Warranty workflow of WARRANTY-POC: the rule-based Plan Generator        *)
(* (src/mcp_servers/planner.py), the Plan Executor and the case store of   *)
(* the orchestrator (src/orchestrator/warranty_orchestrator.py), the Case  *)
(* Context (src/models/case_context.py) and the collaborators they call.   *)
(***************************************************************************)
EXTENDS Integers, Sequences, FiniteSets, TLC

(***************************************************************************)
(* Python values.  None is a string so that optional strings and optional  *)
(* booleans ("True"/"False"/None) compare without type errors; an optional *)
(* number is a set with at most one element ({} is None).                  *)
(***************************************************************************)
None == "None"
PyTrue == "True"
PyFalse == "False"
OptBool == {None, PyTrue, PyFalse}

\* bool(x) of an optional string: None and "" are falsy.
Truthy(x) == x # None /\ x # "" /\ x # "<absent>"
\* bool(x) of an optional boolean.
TruthyB(x) == x = PyTrue
\* a or b, on optional strings.
PyOr(a, b) == IF Truthy(a) THEN a ELSE b

(***************************************************************************)
(* Strings the planner inspects character by character are sequences of    *)
(* one-character strings.                                                  *)
(***************************************************************************)
UpperChars == <<"A","B","C","D","E","F","G","H","I","J","K","L","M",
                "N","O","P","Q","R","S","T","U","V","W","X","Y","Z">>
LowerChars == <<"a","b","c","d","e","f","g","h","i","j","k","l","m",
                "n","o","p","q","r","s","t","u","v","w","x","y","z">>

\* str.lower()
LowerChar(c) ==
    IF \E i \in DOMAIN UpperChars : UpperChars[i] = c
    THEN LowerChars[CHOOSE i \in DOMAIN UpperChars : UpperChars[i] = c]
    ELSE c
lower(s) == [i \in DOMAIN s |-> LowerChar(s[i])]

\* word in text (substring test)
Contains(text, word) ==
    \E i \in 1..(Len(text) - Len(word) + 1) :
        SubSeq(text, i, i + Len(word) - 1) = word

\* planner.py:262, the accept keywords
YesWords == {
    <<"y", "e", "s">>,
    <<"p", "r", "o", "c", "e", "e", "d">>,
    <<"c", "o", "n", "t", "i", "n", "u", "e">>,
    <<"o", "k">>,
    <<"s", "u", "r", "e">>,
    <<"a", "g", "r", "e", "e">>,
    <<"g", "o", " ", "a", "h", "e", "a", "d">>,
    <<"l", "e", "t", "'", "s", " ", "d", "o", " ", "i", "t">> }

\* planner.py:263, the decline keywords
NoWords == {
    <<"n", "o">>,
    <<"c", "a", "n", "c", "e", "l">>,
    <<"s", "t", "o", "p">>,
    <<"d", "e", "c", "l", "i", "n", "e">>,
    <<"d", "o", "n", "'", "t">>,
    <<"d", "o", "n", "t">>,
    <<"e", "x", "p", "e", "n", "s", "i", "v", "e">>,
    <<"c", "a", "n", "'", "t", " ", "a", "f", "f", "o", "r", "d">> }

\* an accept test that knows only the seven one- and two-word phrases
is_yes_without_lets_do_it(user_message) ==
    \E w \in YesWords \ {<<"l", "e", "t", "'", "s", " ", "d", "o", " ", "i", "t">>} :
        Contains(lower(user_message), w)
is_yes(user_message) == \E w \in YesWords : Contains(lower(user_message), w)
is_no(user_message) == \E w \in NoWords : Contains(lower(user_message), w)

(***************************************************************************)
(* Plan steps, as PlanStep.to_dict() leaves them: a field that is None or  *)
(* empty is dropped, which the record shows as None / <<>> / NoArgs.       *)
(***************************************************************************)
NoArgs == [absent |-> TRUE]
NoMessage == [text |-> None, amount |-> {}]
Msg(text) == [text |-> text, amount |-> {}]
\* an f-string message that formats potential_charges
MsgAmount(text, potential_charges) == [text |-> text, amount |-> potential_charges]

PlanStep(step_type, tool_name, tool_args, action_type, required_fields, message) ==
    [step_type |-> step_type, tool_name |-> tool_name, tool_args |-> tool_args,
     action_type |-> action_type, required_fields |-> required_fields,
     message |-> message]

CallTool(tool_name, tool_args) ==
    PlanStep("CALL_TOOL", tool_name, tool_args, None, <<>>, NoMessage)
RespondToUser(message) ==
    PlanStep("RESPOND_TO_USER", None, NoArgs, None, <<>>, message)
AskUserForInfo(required_fields, message) ==
    PlanStep("ASK_USER_FOR_INFO", None, NoArgs, None, required_fields, message)
ReturnAction(action_type) ==
    PlanStep("RETURN_ACTION", None, NoArgs, action_type, <<>>, NoMessage)

\* location.get("zip") or (location.get("city") and location.get("state"))
has_location(location) ==
    Truthy(location.zip) \/ (Truthy(location.city) /\ Truthy(location.state))

\* planner.py:111-117: the fields generate_plan asks for, in list order
missing_fields(context) ==
    (IF ~Truthy(PyOr(context.product_id, context.serial_number))
        THEN <<"product ID or serial number">> ELSE <<>>)
    \o (IF ~Truthy(context.product_name) THEN <<"product name (e.g., 'heat pump water heater', 'water softener')">>
        ELSE <<>>)
    \o (IF ~has_location(context.location)
        THEN <<"location (zip code or city/state)">> ELSE <<>>)

(***************************************************************************)
(* The Plan Generator, planner.py.  A context is the dict handed to        *)
(* generate_plan: a missing key and a key holding None read the same       *)
(* through dict.get, so both are None here.                                *)
(***************************************************************************)
MinReasonLen == 5
DefaultDeclineReason == <<"Customer declined service">>

\* _build_response: the plan and its reasoning
build_response(steps, reasoning) == [plan |-> steps, reasoning |-> reasoning]

\* a SALT plan that enters the HEAT sub-flow with a territory check
salt_plan_checking_territory(steps, context, warranty_status) ==
    build_response(
        steps \o <<
            CallTool("check_territory", [location |-> context.location]),
            RespondToUser(Msg("salt_claim_submitted")) >>,
        "SALT path - territory checked")

\* _generate_salt_plan
generate_salt_plan(steps, context, warranty_status) ==
    IF ~TruthyB(warranty_status.active)
    THEN build_response(
            steps \o <<
                CallTool("get_service_directory",
                         [product_type |-> "SALT", location |-> context.location]),
                RespondToUser(Msg("salt_out_of_warranty_providers")) >>,
            "SALT non-warranty path - returning service directory")
    ELSE build_response(
            steps \o <<
                CallTool("route_to_queue",
                         [queue |-> "WarrantySalt", case_context |-> context,
                          priority |-> "normal"]),
                CallTool("notify_next_steps",
                         [channel |-> "chat", template_id |-> "warranty_queued",
                          context |-> [product_name |-> context.product_id]]),
                RespondToUser(Msg("salt_claim_submitted")) >>,
            "SALT warranty path - case queued for service")

\* a proceed flow that checks the territory whether or not it was checked
proceed_flow_rechecking_territory(steps, context, location, product_id, potential_charges) ==
    build_response(
        steps \o <<
            CallTool("check_territory", [location |-> location]),
            CallTool("generate_paypal_link",
                     [amount |-> potential_charges,
                      metadata |-> [case_id |-> context.case_id,
                                    product_id |-> product_id]]),
            RespondToUser(MsgAmount("heat_complete_payment", potential_charges)) >>,
        "HEAT path - territory checked again")

\* _continue_heat_proceed_flow
continue_heat_proceed_flow(steps, context, location, product_id, potential_charges) ==
    LET territory_checked == context.territory_checked
        territory_serviceable == context.territory_serviceable
        steps1 == IF territory_checked = None
                  THEN steps \o <<CallTool("check_territory", [location |-> location])>>
                  ELSE steps
    IN  IF TruthyB(territory_checked) /\ ~TruthyB(territory_serviceable)
        THEN build_response(
                steps1 \o <<
                    CallTool("get_service_directory",
                             [product_type |-> "HEAT", location |-> location]),
                    RespondToUser(Msg("heat_outside_territory_providers")) >>,
                "HEAT path - Customer agreed, but not serviceable territory")
        ELSE build_response(
                steps1 \o <<
                    CallTool("generate_paypal_link",
                             [amount |-> potential_charges,
                              metadata |-> [case_id |-> context.case_id,
                                            product_id |-> product_id]]),
                    RespondToUser(MsgAmount("heat_complete_payment", potential_charges)) >>,
                "HEAT path - Customer agreed, payment link generated")

\* a HEAT plan that calculates the charges whether or not the context has them
heat_plan_recalculating(steps, context, warranty_status, customer_decision, potential_charges, user_message) ==
    build_response(
        steps \o <<
            CallTool("calculate_charges",
                     [product_id |-> context.product_id, product_type |-> "HEAT",
                      warranty_status |-> warranty_status,
                      location |-> context.location]),
            AskUserForInfo(<<"proceed_confirmation">>, Msg("heat_present_charges")) >>,
        "HEAT path - charges calculated again")

\* a HEAT plan that asks for the confirmation before it calculates the charges
heat_plan_asking_first(steps, context, warranty_status, customer_decision, potential_charges, user_message) ==
    build_response(
        steps \o <<
            AskUserForInfo(<<"proceed_confirmation">>, Msg("heat_present_charges")),
            CallTool("calculate_charges",
                     [product_id |-> context.product_id, product_type |-> "HEAT",
                      warranty_status |-> warranty_status,
                      location |-> context.location]) >>,
        "HEAT path - asking before the charges are calculated")

\* _generate_heat_plan
generate_heat_plan(steps, context, warranty_status, customer_decision, potential_charges, user_message) ==
    LET location == context.location
        product_id == context.product_id
    IN  IF potential_charges = {}
        THEN build_response(
                steps \o <<
                    CallTool("calculate_charges",
                             [product_id |-> product_id, product_type |-> "HEAT",
                              warranty_status |-> warranty_status,
                              location |-> location]),
                    AskUserForInfo(<<"proceed_confirmation">>,
                                   Msg("heat_present_charges")) >>,
                "HEAT path - Turn 1: Calculated charges, asking for confirmation, END TURN")
        ELSE IF is_no(user_message) \/ customer_decision = "DECLINE"
        THEN build_response(
                steps \o <<
                    CallTool("log_decline_reason",
                             [reason |-> IF Len(user_message) > MinReasonLen
                                         THEN user_message ELSE DefaultDeclineReason,
                              context |-> [case_id |-> context.case_id,
                                           product_id |-> product_id,
                                           potential_charges |-> potential_charges,
                                           warranty_status |-> warranty_status]]),
                    RespondToUser(Msg("heat_decline_noted")) >>,
                "HEAT path - Turn 2: Customer declined, reason logged")
        ELSE IF is_yes(user_message) \/ customer_decision = "PROCEED"
        THEN continue_heat_proceed_flow(steps, context, location, product_id,
                                        potential_charges)
        ELSE build_response(
                steps \o <<
                    AskUserForInfo(<<"proceed_confirmation">>,
                                   MsgAmount("heat_clarify_decision", potential_charges)) >>,
                "HEAT path - Turn 2: Unclear response, asking for clarification")

\* generate_plan past its missing-field check: the warranty lookup when the
\* product type or the warranty status is unknown, else the branch by product
\* type
plan_with_required_info(context, user_message) ==
    LET product_id == PyOr(context.product_id, context.serial_number)
        product_type == context.product_type
        warranty_status == context.warranty_status
    IN  IF ~Truthy(product_type) \/ warranty_status.active = None
        THEN build_response(
                << CallTool("get_warranty_record", [product_id |-> product_id]),
                   RespondToUser(Msg("warranty_retrieved")) >>,
                "Need to determine warranty status and product type")
        ELSE IF product_type = "SALT"
        THEN generate_salt_plan(<<>>, context, warranty_status)
        ELSE IF product_type = "HEAT"
        THEN generate_heat_plan(<<>>, context, warranty_status,
                                context.customer_decision,
                                context.potential_charges, user_message)
        ELSE build_response(
                << RespondToUser(Msg("unexpected_product_type")),
                   ReturnAction("ESCALATE") >>,
                "Unknown product type")

\* generate_plan
generate_plan(context, user_message) ==
    LET missing == missing_fields(context)
    IN  IF missing # <<>>
        THEN build_response(
                <<AskUserForInfo(missing, Msg("need_details"))>>,
                "Missing required fields")
        ELSE plan_with_required_info(context, user_message)

(***************************************************************************)
(* Case Context, models/case_context.py.                                   *)
(***************************************************************************)
\* a key the dict does not hold at all (dict.get(key, default) sees the default)
Absent == "<absent>"
NoId == <<>>
CaseId(n) == <<"CASE", n>>

\* Location(), every field None
EmptyLocation == [zip |-> None, city |-> None, state |-> None]
\* a WarrantyStatus built from the first two fields only, its all_coverage
\* left at the default
WarrantyStatusWithoutAllCoverage(warranty_data) ==
    [active |-> IF "active" \in DOMAIN warranty_data THEN warranty_data.active ELSE PyFalse,
     coverage_types |-> IF "coverage_types" \in DOMAIN warranty_data
                        THEN warranty_data.coverage_types ELSE <<>>,
     expiration_date |-> None,
     all_coverage |-> <<>>]

\* WarrantyStatus(active=warranty_data.get("active", False),
\*                coverage_types=warranty_data.get("coverage_types", []),
\*                all_coverage=warranty_data.get("all_coverage", {}))
\* as _update_case_from_tool_result builds it; expiration_date keeps its
\* default.  The record is also what model_dump() returns.
WarrantyStatus(warranty_data) ==
    [active |-> IF "active" \in DOMAIN warranty_data THEN warranty_data.active ELSE PyFalse,
     coverage_types |-> IF "coverage_types" \in DOMAIN warranty_data
                        THEN warranty_data.coverage_types ELSE <<>>,
     expiration_date |-> None,
     all_coverage |-> IF "all_coverage" \in DOMAIN warranty_data
                      THEN warranty_data.all_coverage ELSE <<>>]

\* WarrantyStatus(): the default_factory of CaseContext.warranty_status
DefaultWarrantyStatus ==
    [active |-> PyFalse, coverage_types |-> <<>>, expiration_date |-> None,
     all_coverage |-> <<>>]

\* Location(**location_data): keys the request does not give become None
Location(location_data) ==
    [k \in DOMAIN location_data |->
        IF location_data[k] = Absent THEN None ELSE location_data[k]]

\* Location.is_complete
is_complete(location) ==
    Truthy(location.zip) \/ (Truthy(location.city) /\ Truthy(location.state))

\* CaseContext.get_missing_fields
get_missing_fields(case) ==
    (IF ~Truthy(case.product_id) /\ ~Truthy(case.serial_number)
        THEN <<"product_id or serial_number">> ELSE <<>>)
    \o (IF ~is_complete(case.location)
        THEN <<"location (zip code or city/state)">> ELSE <<>>)

\* CaseContext.from_request: product_type, product_name and warranty_status of
\* the request are not read; the workflow fields start at their defaults
from_request(request, new_case_id) ==
    [case_id |-> new_case_id,
     logged_in |-> request.logged_in,
     has_registered_products |-> request.has_registered_products,
     product_id |-> request.product_id,
     serial_number |-> request.serial_number,
     product_type |-> None,
     product_name |-> None,
     location |-> Location(request.location),
     warranty_status |-> DefaultWarrantyStatus,
     customer_decision |-> "PENDING",
     potential_charges |-> {},
     territory_checked |-> None,
     territory_serviceable |-> None,
     user_messages |-> <<>>]

\* CaseContext.add_user_message
add_user_message(case, message) ==
    [case EXCEPT !.user_messages = Append(@, message)]

\* CaseContext.to_dict: the dict handed to the planner and to the tools; it
\* carries no product_name key, which generate_plan therefore reads as None
to_dict(case) ==
    [case_id |-> case.case_id,
     logged_in |-> case.logged_in,
     has_registered_products |-> case.has_registered_products,
     product_id |-> case.product_id,
     serial_number |-> case.serial_number,
     product_type |-> case.product_type,
     product_name |-> None,
     location |-> case.location,
     warranty_status |-> case.warranty_status,
     customer_decision |-> case.customer_decision,
     potential_charges |-> case.potential_charges,
     territory_checked |-> case.territory_checked,
     territory_serviceable |-> case.territory_serviceable]

(***************************************************************************)
(* The collaborators the executor calls.  Amounts are in cents, regional   *)
(* modifiers in percent.  A tool result is [status, error_code, data].     *)
(***************************************************************************)
Ok(data) == [status |-> "ok", error_code |-> None, data |-> data]
Error(error_code) == [status |-> "error", error_code |-> error_code, data |-> NoArgs]

\* warranty_docs.py DUMMY_PRODUCTS (two of its five products)
DUMMY_PRODUCTS ==
    [p \in {"SALT-001", "HEAT-001"} |->
        IF p = "SALT-001"
        THEN [product_type |-> "SALT", product_name |-> "Salt Water Softener Pro",
              serial_number |-> "SN-SALT-2024-001234",
              coverage |-> <<[type |-> "parts", duration_months |-> 24],
                             [type |-> "labor", duration_months |-> 12],
                             [type |-> "controller", duration_months |-> 60]>>]
        ELSE [product_type |-> "HEAT", product_name |-> "Heat Pump Water Heater Elite",
              serial_number |-> "SN-HEAT-2025-001111",
              coverage |-> <<[type |-> "parts", duration_months |-> 36],
                             [type |-> "labor", duration_months |-> 12],
                             [type |-> "tank", duration_months |-> 120]>>]]

\* SERIAL_TO_PRODUCT.get(serial_number)
SERIAL_TO_PRODUCT(serial_number) ==
    IF \E p \in DOMAIN DUMMY_PRODUCTS : DUMMY_PRODUCTS[p].serial_number = serial_number
    THEN CHOOSE p \in DOMAIN DUMMY_PRODUCTS : DUMMY_PRODUCTS[p].serial_number = serial_number
    ELSE None

\* datetime.now() - purchase_date, in 30-day months: the lookup's clock input
ElapsedMonths == {6, 18, 48, 130}

\* the coverage types still active, in the product's coverage order
RECURSIVE active_coverages(_, _)
active_coverages(coverage, elapsed) ==
    IF coverage = <<>> THEN <<>>
    ELSE (IF elapsed < Head(coverage).duration_months
          THEN <<Head(coverage).type>> ELSE <<>>)
         \o active_coverages(Tail(coverage), elapsed)

\* coverage_status of get_warranty_record: one entry per coverage of the
\* product, in the product's order, with its active flag and duration
coverage_status(coverage, elapsed) ==
    [i \in DOMAIN coverage |->
        [type |-> coverage[i].type,
         active |-> elapsed < coverage[i].duration_months,
         duration_months |-> coverage[i].duration_months]]

\* warranty_docs.get_warranty_record
get_warranty_record(product_id, serial_number, elapsed) ==
    LET pid == IF ~Truthy(product_id) /\ Truthy(serial_number)
               THEN SERIAL_TO_PRODUCT(serial_number) ELSE product_id
    IN  IF ~Truthy(pid) THEN Error("MISSING_IDENTIFIER")
        ELSE IF pid \notin DOMAIN DUMMY_PRODUCTS THEN Error("PRODUCT_NOT_FOUND")
        ELSE LET product == DUMMY_PRODUCTS[pid]
                 active == active_coverages(product.coverage, elapsed)
             IN  Ok([product_id |-> pid,
                     product_type |-> product.product_type,
                     product_name |-> product.product_name,
                     warranty_status |->
                        [active |-> IF Len(active) > 0 THEN PyTrue ELSE PyFalse,
                         coverage_types |-> active,
                         all_coverage |-> coverage_status(product.coverage, elapsed)]])

\* compute/service.py BASE_CHARGES (service call, hourly labor, average hours,
\* general parts)
BASE_CHARGES ==
    [t \in {"SALT", "HEAT"} |->
        IF t = "SALT"
        THEN [service_call |-> 9500, labor_hourly |-> 8500,
              average_labor_hours |-> 2, general_parts |-> 7500]
        ELSE [service_call |-> 12500, labor_hourly |-> 9500,
              average_labor_hours |-> 3, general_parts |-> 10000]]

\* compute/service.py REGIONAL_MODIFIERS.get(state, default)
REGIONAL_MODIFIERS(state) ==
    CASE state = "CA" -> 125
      [] state = "NY" -> 120
      [] state = "FL" -> 105
      [] OTHER -> 100

InSeq(x, seq) == \E i \in DOMAIN seq : seq[i] = x

\* ComputeService.run -> calculate_charges, as _execute_tool calls it.
\* location.get("state", "").upper() raises on a state that is None, which
\* _execute_tool turns into TOOL_ERROR.
calculate_charges(product_type, warranty_status, location) ==
    IF product_type \notin DOMAIN BASE_CHARGES THEN Error("UNKNOWN_PRODUCT_TYPE")
    ELSE IF location.state = None THEN Error("TOOL_ERROR")
    ELSE LET base == BASE_CHARGES[product_type]
             modifier == REGIONAL_MODIFIERS(location.state)
             labor == IF InSeq("labor", warranty_status.coverage_types) THEN 0
                      ELSE (base.average_labor_hours * base.labor_hourly * modifier) \div 100
             parts == IF InSeq("parts", warranty_status.coverage_types) THEN 0
                      ELSE (base.general_parts * modifier) \div 100
             call == (base.service_call * modifier) \div 100
         IN  Ok([summary |-> [total_potential_charges |-> {labor + parts + call}]])

\* actions.py SERVICEABLE_ZIPS (the Houston zips; two of them)
SERVICEABLE_ZIPS == {"77001", "77002"}

\* actions.check_territory; the zips of this model are already five
\* characters without blanks, so strip()[:5] leaves them as they are
check_territory(location) ==
    LET zip_code == IF Truthy(location.zip) THEN location.zip ELSE ""
    IN  Ok([serviceable |-> IF zip_code \in SERVICEABLE_ZIPS THEN PyTrue ELSE PyFalse])

\* actions.get_service_directory
get_service_directory(product_type) ==
    IF product_type \in {"SALT", "HEAT"}
    THEN Ok([product_type |-> product_type])
    ELSE Error("NO_PROVIDERS")

(***************************************************************************)
(* The side-effecting actions of actions.py and their in-memory stores.    *)
(* world = [queued_cases, generated_links, logged_declines,                *)
(* sent_notifications, next_id]; next_id stands for the uuid4 of the next  *)
(* identifier.  Each returns [result, world].                              *)
(***************************************************************************)
EmptyWorld ==
    [queued_cases |-> <<>>, generated_links |-> <<>>, logged_declines |-> <<>>,
     sent_notifications |-> <<>>, next_id |-> 1]

\* a lookup that never finds the key
NeverHasKey(store, idempotency_key) == FALSE

HasKey(store, idempotency_key) ==
    Truthy(idempotency_key)
    /\ \E i \in DOMAIN store : store[i].idempotency_key = idempotency_key
FirstWithKey(store, idempotency_key) ==
    store[CHOOSE i \in DOMAIN store :
            /\ store[i].idempotency_key = idempotency_key
            /\ \A j \in 1..(i - 1) : store[j].idempotency_key # idempotency_key]

\* a route_to_queue whose duplicate call moves the queued case to the queue of
\* the new call
route_to_queue_requeueing_duplicate(world, queue, priority, idempotency_key) ==
    IF HasKey(world.queued_cases, idempotency_key)
    THEN LET i == CHOOSE i \in DOMAIN world.queued_cases :
                    world.queued_cases[i].idempotency_key = idempotency_key
         IN  [result |-> Ok([case_id |-> world.queued_cases[i].case_id,
                             queue |-> queue, duplicate |-> TRUE]),
              world |-> [world EXCEPT !.queued_cases[i].queue = queue]]
    ELSE LET case_id == CaseId(world.next_id)
             entry == [case_id |-> case_id, queue |-> queue, priority |-> priority,
                       idempotency_key |-> idempotency_key]
         IN  [result |-> Ok([case_id |-> case_id, queue |-> queue,
                             duplicate |-> FALSE]),
              world |-> [world EXCEPT !.queued_cases = Append(@, entry),
                                      !.next_id = @ + 1]]

\* actions.route_to_queue
route_to_queue(world, queue, priority, idempotency_key) ==
    IF HasKey(world.queued_cases, idempotency_key)
    THEN LET case == FirstWithKey(world.queued_cases, idempotency_key)
         IN  [result |-> Ok([case_id |-> case.case_id, queue |-> case.queue,
                             duplicate |-> TRUE]),
              world |-> world]
    ELSE LET case_id == CaseId(world.next_id)
             entry == [case_id |-> case_id, queue |-> queue, priority |-> priority,
                       idempotency_key |-> idempotency_key]
         IN  [result |-> Ok([case_id |-> case_id, queue |-> queue,
                             duplicate |-> FALSE]),
              world |-> [world EXCEPT !.queued_cases = Append(@, entry),
                                      !.next_id = @ + 1]]

\* actions.generate_paypal_link
generate_paypal_link(world, amount, metadata, idempotency_key) ==
    IF HasKey(world.generated_links, idempotency_key)
    THEN LET link == FirstWithKey(world.generated_links, idempotency_key)
         IN  [result |-> Ok([payment_id |-> link.payment_id, duplicate |-> TRUE]),
              world |-> world]
    ELSE LET payment_id == <<"PAY", world.next_id>>
             entry == [payment_id |-> payment_id, amount |-> amount,
                       metadata |-> metadata, idempotency_key |-> idempotency_key]
         IN  [result |-> Ok([payment_id |-> payment_id, duplicate |-> FALSE]),
              world |-> [world EXCEPT !.generated_links = Append(@, entry),
                                      !.next_id = @ + 1]]

\* actions.log_decline_reason
log_decline_reason(world, reason, idempotency_key) ==
    IF HasKey(world.logged_declines, idempotency_key)
    THEN LET log == FirstWithKey(world.logged_declines, idempotency_key)
         IN  [result |-> Ok([log_id |-> log.log_id, duplicate |-> TRUE]),
              world |-> world]
    ELSE LET log_id == <<"LOG", world.next_id>>
             entry == [log_id |-> log_id, reason |-> reason,
                       idempotency_key |-> idempotency_key]
         IN  [result |-> Ok([log_id |-> log_id, duplicate |-> FALSE]),
              world |-> [world EXCEPT !.logged_declines = Append(@, entry),
                                      !.next_id = @ + 1]]

\* actions.notify_next_steps
notify_next_steps(world, channel, template_id) ==
    LET notification_id == <<"NOTIF", world.next_id>>
        entry == [notification_id |-> notification_id, channel |-> channel,
                  template_id |-> template_id]
    IN  [result |-> Ok([notification_id |-> notification_id]),
         world |-> [world EXCEPT !.sent_notifications = Append(@, entry),
                                 !.next_id = @ + 1]]

(***************************************************************************)
(* The Plan Executor, warranty_orchestrator.py.                            *)
(***************************************************************************)
Pure(result, world) == [result |-> result, world |-> world]

\* WarrantyOrchestrator._execute_tool, for the tools a plan names; the planner
\* gives no idempotency_key, so tool_args.get("idempotency_key") is None
execute_tool(tool_name, tool_args, case, world, elapsed) ==
    CASE tool_name = "get_warranty_record" ->
            Pure(get_warranty_record(PyOr(tool_args.product_id, case.product_id),
                                     None, elapsed), world)
      [] tool_name = "calculate_charges" ->
            Pure(calculate_charges(tool_args.product_type, tool_args.warranty_status,
                                   tool_args.location), world)
      [] tool_name = "route_to_queue" ->
            route_to_queue(world, tool_args.queue, tool_args.priority, None)
      [] tool_name = "get_service_directory" ->
            Pure(get_service_directory(tool_args.product_type), world)
      [] tool_name = "check_territory" ->
            Pure(check_territory(tool_args.location), world)
      [] tool_name = "generate_paypal_link" ->
            generate_paypal_link(world, tool_args.amount, tool_args.metadata, None)
      [] tool_name = "log_decline_reason" ->
            log_decline_reason(world, tool_args.reason, None)
      [] tool_name = "notify_next_steps" ->
            notify_next_steps(world, tool_args.channel, tool_args.template_id)
      [] OTHER -> Pure(Error("UNKNOWN_TOOL"), world)

\* WarrantyOrchestrator._update_case_from_tool_result past its status check:
\* the fold of an ok result
fold_ok_result(case, tool_name, result) ==
    CASE tool_name = "get_warranty_record" ->
            [case EXCEPT !.product_type = result.data.product_type,
                         !.product_name = result.data.product_name,
                         !.warranty_status = WarrantyStatus(result.data.warranty_status)]
      [] tool_name = "calculate_charges" ->
            [case EXCEPT !.potential_charges =
                            result.data.summary.total_potential_charges]
      [] tool_name = "check_territory" ->
            [case EXCEPT !.territory_checked = PyTrue,
                         !.territory_serviceable = result.data.serviceable]
      [] tool_name = "route_to_queue" ->
            IF result.data.case_id # NoId
            THEN [case EXCEPT !.case_id = result.data.case_id]
            ELSE case
      [] OTHER -> case

\* a fold that resets the looked-up fields when the tool failed
update_case_resetting_on_error(case, tool_name, result) ==
    IF result.status # "ok"
    THEN [case EXCEPT !.product_type = None, !.potential_charges = {}]
    ELSE fold_ok_result(case, tool_name, result)

\* a fold that puts the decision back to PENDING once the decline is logged
update_case_resetting_decision(case, tool_name, result) ==
    IF result.status # "ok" THEN case
    ELSE IF tool_name = "log_decline_reason"
    THEN [case EXCEPT !.customer_decision = "PENDING"]
    ELSE fold_ok_result(case, tool_name, result)

\* a fold that takes a failed result for an inactive warranty of a HEAT product
update_case_folding_failed_lookup(case, tool_name, result) ==
    IF result.status # "ok"
    THEN [case EXCEPT !.product_type = "HEAT",
                      !.warranty_status = WarrantyStatus([active |-> PyFalse])]
    ELSE fold_ok_result(case, tool_name, result)

\* WarrantyOrchestrator._update_case_from_tool_result
update_case_from_tool_result(case, tool_name, result) ==
    IF result.status # "ok" THEN case
    ELSE fold_ok_result(case, tool_name, result)

\* warranty_orchestrator.py STEP_TYPES and ACTION_TYPES
STEP_TYPES == {"ASK_USER_FOR_INFO", "CALL_TOOL", "RETURN_ACTION", "RESPOND_TO_USER"}
ACTION_TYPES == {"PROMPT_LOGIN", "PROMPT_PRODUCT_REGISTRATION", "CASE_COMPLETE",
                 "ESCALATE"}

\* WarrantyOrchestrator._validate_plan: TRUE when it raises no
\* PlanValidationError
validate_plan(steps) ==
    \A i \in DOMAIN steps :
        /\ steps[i].step_type \in STEP_TYPES
        /\ steps[i].step_type = "RETURN_ACTION" /\ Truthy(steps[i].action_type)
              => steps[i].action_type \in ACTION_TYPES

\* the result of _execute_workflow when the plan is rejected: a response and
\* no action, no step executed
RejectPlan(run) == [run EXCEPT !.responses = <<Msg("need_to_verify")>>]

\* step.get("message", "")
StepMessage(step) == IF step.message = NoMessage THEN Msg("") ELSE step.message

\* the state of one _execute_plan call before its first step
StartRun(case, world) ==
    [case |-> case, world |-> world, responses |-> <<>>, action |-> None,
     action_data |-> NoArgs, stopped |-> FALSE, calls |-> <<>>]

\* one iteration of the loop of _execute_plan; stopped is the loop's break
execute_step(run, step, elapsed) ==
    CASE step.step_type = "RETURN_ACTION" ->
            [run EXCEPT !.action = step.action_type,
                        !.action_data = [message |-> StepMessage(step)],
                        !.responses = Append(@, StepMessage(step)),
                        !.stopped = TRUE]
      [] step.step_type = "ASK_USER_FOR_INFO" ->
            [run EXCEPT !.responses = Append(@, StepMessage(step)),
                        !.action = "ASK_USER",
                        !.action_data = [required_fields |-> step.required_fields],
                        !.stopped = TRUE]
      [] step.step_type = "CALL_TOOL" ->
            LET out == execute_tool(step.tool_name, step.tool_args, run.case,
                                    run.world, elapsed)
            IN  [run EXCEPT !.case = update_case_from_tool_result(
                                        @, step.tool_name, out.result),
                            !.world = out.world,
                            !.calls = Append(@, [tool_name |-> step.tool_name,
                                                 result |-> out.result])]
      [] step.step_type = "RESPOND_TO_USER" ->
            [run EXCEPT !.responses = Append(@, StepMessage(step))]
      [] OTHER -> run

\* WarrantyOrchestrator._execute_plan: the loop over the plan's steps
RECURSIVE execute_plan(_, _, _)
execute_plan(run, steps, elapsed) ==
    IF steps = <<>> \/ run.stopped THEN run
    ELSE execute_plan(execute_step(run, Head(steps), elapsed), Tail(steps), elapsed)

\* the text _execute_plan returns: the responses joined, or the filler
full_response(run) ==
    IF run.responses # <<>> THEN run.responses ELSE <<Msg("here_to_help")>>

(***************************************************************************)
(* The planner and the executor on every context: the inputs of one        *)
(* get_plan call are drawn at the start, generate_plan is applied to them  *)
(* and _execute_plan runs the plan it returned.                            *)
(***************************************************************************)
VARIABLES
    context,        \* the context dict of the get_plan call
    user_message,   \* the user's latest message
    plan,           \* what generate_plan returned: [plan, reasoning]
    run,            \* the state of _execute_plan: case, stores, responses, action
    pc,             \* "input", "planned" or "done"
    cases,          \* WarrantyOrchestrator._cases: case_id -> CaseContext
    stores,         \* the in-memory stores of actions.py
    turns,          \* the number of requests processed (the next uuid4)
    history         \* the calls made on the actions server: name, key, result

planVars == <<context, user_message, plan, run, pc>>
orchestratorVars == <<cases, stores, turns, history>>
vars == <<context, user_message, plan, run, pc, cases, stores, turns, history>>

\* an orchestrator that has processed no request
NoCases == [id \in {} |-> None]
OrchestratorIdle ==
    cases = NoCases /\ stores = EmptyWorld /\ turns = 0 /\ history = <<>>

NoPlan == [plan |-> <<>>, reasoning |-> None]

UserMessages == {
    <<"Y", "e", "s", " ", "p", "r", "o", "c", "e", "e", "d">>,
    <<"N", "o">>,
    <<"O", "K", " ", "n", "o", " ", "t", "h", "a", "n", "k", "s">>,
    <<"h", "m", "m">>,
    <<"m", "y", " ", "h", "e", "a", "t", "e", "r", " ", "m", "a", "k", "e", "s",
      " ", "n", "o", "i", "s", "e">> }

\* locations as a caller's dict gives them
Locations == {
    [zip |-> Absent, city |-> Absent, state |-> Absent],
    [zip |-> "77001", city |-> Absent, state |-> Absent],
    [zip |-> "77001", city |-> None, state |-> "TX"],
    [zip |-> "90210", city |-> None, state |-> "CA"],
    [zip |-> None, city |-> "Houston", state |-> None],
    [zip |-> None, city |-> "Houston", state |-> "TX"] }

Identifiers == {
    [product_id |-> None, serial_number |-> None],
    [product_id |-> "HEAT-001", serial_number |-> None],
    [product_id |-> "SALT-001", serial_number |-> None],
    [product_id |-> None, serial_number |-> "SN-HEAT-2025-001111"] }

WarrantyStatuses == {
    [active |-> None, coverage_types |-> <<>>],
    [active |-> PyFalse, coverage_types |-> <<>>],
    [active |-> PyTrue, coverage_types |-> <<"parts", "tank">>] }

\* (territory_checked, territory_serviceable)
Territories == {
    <<None, None>>, <<PyTrue, PyTrue>>, <<PyTrue, PyFalse>>, <<None, PyFalse>> }

PlanContexts ==
    { [case_id |-> CaseId(0),
       logged_in |-> li, has_registered_products |-> rp,
       product_id |-> id.product_id, serial_number |-> id.serial_number,
       product_name |-> pn, location |-> loc, product_type |-> pt,
       warranty_status |-> ws, customer_decision |-> cd,
       potential_charges |-> ch,
       territory_checked |-> t[1], territory_serviceable |-> t[2]] :
        li \in BOOLEAN, rp \in BOOLEAN, id \in Identifiers,
        pn \in {None, "Heat Pump Water Heater Elite"}, loc \in Locations,
        pt \in {None, "SALT", "HEAT", "SOLAR"}, ws \in WarrantyStatuses,
        cd \in {"PENDING", "PROCEED", "DECLINE"}, ch \in {{}, {22000}},
        t \in Territories }

\* the CaseContext that holds the fields of a context
CaseOf(ctx, message) ==
    [case_id |-> ctx.case_id,
     logged_in |-> ctx.logged_in,
     has_registered_products |-> ctx.has_registered_products,
     product_id |-> ctx.product_id,
     serial_number |-> ctx.serial_number,
     product_type |-> ctx.product_type,
     product_name |-> ctx.product_name,
     location |-> Location(ctx.location),
     warranty_status |-> ctx.warranty_status,
     customer_decision |-> ctx.customer_decision,
     potential_charges |-> ctx.potential_charges,
     territory_checked |-> ctx.territory_checked,
     territory_serviceable |-> ctx.territory_serviceable,
     user_messages |-> <<message>>]

InitPlan ==
    /\ context \in PlanContexts
    /\ user_message \in UserMessages
    /\ plan = NoPlan
    /\ run = StartRun(CaseOf(context, user_message), EmptyWorld)
    /\ pc = "input"
    /\ OrchestratorIdle

\* planner.handle_request, tools/call get_plan
GetPlan ==
    /\ pc = "input"
    /\ plan' = generate_plan(context, user_message)
    /\ pc' = "planned"
    /\ UNCHANGED <<context, user_message, run>>
    /\ UNCHANGED orchestratorVars

\* _execute_workflow steps 2 and 3: _validate_plan, then _execute_plan
ExecutePlan ==
    /\ pc = "planned"
    /\ \E elapsed \in ElapsedMonths :
          run' = IF validate_plan(plan.plan)
                 THEN execute_plan(run, plan.plan, elapsed)
                 ELSE RejectPlan(run)
    /\ pc' = "done"
    /\ UNCHANGED <<context, user_message, plan>>
    /\ UNCHANGED orchestratorVars

NextPlan == GetPlan \/ ExecutePlan

SpecPlan == InitPlan /\ [][NextPlan]_vars

(***************************************************************************)
(* The orchestrator in its rule-based mode (no LLM client): process_request*)
(* finds or creates the case, _get_plan hands case.to_dict() to            *)
(* generate_plan, _execute_plan runs the plan and the case is saved.  The  *)
(* tools are called synchronously, so a request is one step.               *)
(***************************************************************************)
MaxTurns == 2

RequestMessages == {
    <<>>,
    <<"Y", "e", "s", " ", "p", "r", "o", "c", "e", "e", "d">>,
    <<"N", "o">>,
    <<"h", "m", "m">> }

RequestLocations == {
    [zip |-> Absent, city |-> Absent, state |-> Absent],
    [zip |-> "77001", city |-> None, state |-> "TX"],
    [zip |-> "90210", city |-> None, state |-> "CA"] }

\* the context object of a request; case_id names a stored case, an unknown
\* one, or is None
Requests ==
    { [logged_in |-> li, has_registered_products |-> rp,
       product_id |-> id.product_id, serial_number |-> id.serial_number,
       product_name |-> pn, location |-> loc, case_id |-> cid,
       user_message |-> m] :
        li \in BOOLEAN, rp \in BOOLEAN, id \in Identifiers,
        pn \in {None, "Heat Pump Water Heater Elite"},
        loc \in RequestLocations,
        cid \in {NoId} \cup {CaseId(n) : n \in 1..MaxTurns},
        m \in RequestMessages }

\* a lookup that creates a case for every request, known case_id or not
always_create_case(request, known, new_case_id) ==
    LET created == from_request(request, new_case_id)
        case == IF request.user_message # <<>>
                THEN add_user_message(created, request.user_message)
                ELSE created
    IN  [case |-> case,
         cases |-> [id \in DOMAIN known \cup {new_case_id} |->
                       IF id = new_case_id THEN case ELSE known[id]]]

\* a lookup that hands a request without a known case_id the case created
\* last, when there is one
get_or_create_latest_case(request, known, new_case_id) ==
    LET latest == CaseId(new_case_id[2] - 1)
        found == IF request.case_id # NoId /\ request.case_id \in DOMAIN known
                 THEN request.case_id ELSE latest
    IN  IF found \in DOMAIN known
        THEN LET case == IF request.user_message # <<>>
                         THEN add_user_message(known[found], request.user_message)
                         ELSE known[found]
             IN  [case |-> case, cases |-> [known EXCEPT ![found] = case]]
        ELSE LET created == from_request(request, new_case_id)
                 case == IF request.user_message # <<>>
                         THEN add_user_message(created, request.user_message)
                         ELSE created
             IN  [case |-> case,
                  cases |-> [id \in DOMAIN known \cup {new_case_id} |->
                                IF id = new_case_id THEN case ELSE known[id]]]

\* WarrantyOrchestrator.get_or_create_case: [case, cases]
get_or_create_case(request, known, new_case_id) ==
    IF request.case_id # NoId /\ request.case_id \in DOMAIN known
    THEN LET case == IF request.user_message # <<>>
                     THEN add_user_message(known[request.case_id],
                                           request.user_message)
                     ELSE known[request.case_id]
         IN  [case |-> case,
              cases |-> [known EXCEPT ![request.case_id] = case]]
    ELSE LET created == from_request(request, new_case_id)
             case == IF request.user_message # <<>>
                     THEN add_user_message(created, request.user_message)
                     ELSE created
         IN  [case |-> case,
              cases |-> [id \in DOMAIN known \cup {new_case_id} |->
                            IF id = new_case_id THEN case ELSE known[id]]]

\* self._cases[case.case_id] = case
save_case(known, case) ==
    [id \in DOMAIN known \cup {case.case_id} |->
        IF id = case.case_id THEN case ELSE known[id]]

\* before the first request: no plan yet, and a blank CaseContext()
BlankCase ==
    from_request([logged_in |-> FALSE, has_registered_products |-> FALSE,
                  product_id |-> None, serial_number |-> None,
                  location |-> EmptyLocation], NoId)

Init ==
    /\ OrchestratorIdle
    /\ context = to_dict(BlankCase)
    /\ user_message = <<>>
    /\ plan = NoPlan
    /\ run = StartRun(BlankCase, EmptyWorld)
    /\ pc = "input"

\* WarrantyOrchestrator.process_request with self.client None:
\* get_or_create_case, _execute_workflow (_get_plan, _execute_plan), save
ProcessRequest(request) ==
    /\ turns < MaxTurns
    /\ \/ request.case_id = NoId
       \/ request.case_id \in DOMAIN cases
       \/ request.case_id = CaseId(MaxTurns)
    /\ \E elapsed \in ElapsedMonths :
         LET got == get_or_create_case(request, cases, CaseId(turns + 1))
             ctx == to_dict(got.case)
             planned == generate_plan(ctx, request.user_message)
             ran == IF validate_plan(planned.plan)
                    THEN execute_plan(StartRun(got.case, stores), planned.plan,
                                      elapsed)
                    ELSE RejectPlan(StartRun(got.case, stores))
         IN  /\ context' = ctx
             /\ user_message' = request.user_message
             /\ plan' = planned
             /\ run' = ran
             /\ stores' = ran.world
             /\ cases' = save_case(got.cases, ran.case)
    /\ turns' = turns + 1
    /\ pc' = "done"
    /\ UNCHANGED history

Next == \E request \in Requests : ProcessRequest(request)

Spec == Init /\ [][Next]_vars

(***************************************************************************)
(* The actions server on its own: any caller invokes the side-effecting    *)
(* tools of actions.py, with or without an idempotency key, in any order.  *)
(***************************************************************************)
MaxCalls == 3

\* idempotency_key arguments: absent, empty, and two keys
IdempotencyKeys == {None, "", "key-1", "key-2"}
Queues == {"WarrantySalt", "WarrantyHeat"}
Amounts == {{22000}, {9500}}
Reasons == {<<"N", "o">>, DefaultDeclineReason}

InitActions ==
    /\ OrchestratorIdle
    /\ context = to_dict(BlankCase)
    /\ user_message = <<>>
    /\ plan = NoPlan
    /\ run = StartRun(BlankCase, EmptyWorld)
    /\ pc = "input"

\* the call recorded with its key and its result
Recorded(tool_name, idempotency_key, result) ==
    Append(history, [tool_name |-> tool_name,
                     idempotency_key |-> idempotency_key, result |-> result])

\* actions.handle_request, tools/call route_to_queue
RouteToQueue ==
    /\ Len(history) < MaxCalls
    /\ \E queue \in Queues, idempotency_key \in IdempotencyKeys :
         LET out == route_to_queue(stores, queue, "normal", idempotency_key)
         IN  /\ stores' = out.world
             /\ history' = Recorded("route_to_queue", idempotency_key, out.result)
    /\ UNCHANGED <<context, user_message, plan, run, pc, cases, turns>>

\* actions.handle_request, tools/call generate_paypal_link
GeneratePaypalLink ==
    /\ Len(history) < MaxCalls
    /\ \E amount \in Amounts, idempotency_key \in IdempotencyKeys :
         LET out == generate_paypal_link(stores, amount, NoArgs, idempotency_key)
         IN  /\ stores' = out.world
             /\ history' = Recorded("generate_paypal_link", idempotency_key,
                                    out.result)
    /\ UNCHANGED <<context, user_message, plan, run, pc, cases, turns>>

\* actions.handle_request, tools/call log_decline_reason
LogDeclineReason ==
    /\ Len(history) < MaxCalls
    /\ \E reason \in Reasons, idempotency_key \in IdempotencyKeys :
         LET out == log_decline_reason(stores, reason, idempotency_key)
         IN  /\ stores' = out.world
             /\ history' = Recorded("log_decline_reason", idempotency_key,
                                    out.result)
    /\ UNCHANGED <<context, user_message, plan, run, pc, cases, turns>>

\* actions.handle_request, tools/call notify_next_steps
NotifyNextSteps ==
    /\ Len(history) < MaxCalls
    /\ LET out == notify_next_steps(stores, "chat", "warranty_queued")
       IN  /\ stores' = out.world
           /\ history' = Recorded("notify_next_steps", None, out.result)
    /\ UNCHANGED <<context, user_message, plan, run, pc, cases, turns>>

NextActions ==
    RouteToQueue \/ GeneratePaypalLink \/ LogDeclineReason \/ NotifyNextSteps

SpecActions == InitActions /\ [][NextActions]_vars

(***************************************************************************)
(* One turn submitted more than once: the same context and message go      *)
(* through _execute_workflow again (generate_plan, _validate_plan,         *)
(* _execute_plan) against the case and the stores the earlier submission   *)
(* left.                                                                   *)
(***************************************************************************)
MaxSubmits == 2

\* the contexts of an authenticated customer with registered products
SubmitContexts ==
    { ctx \in PlanContexts : ctx.logged_in /\ ctx.has_registered_products }

InitSubmit ==
    /\ context \in SubmitContexts
    /\ user_message \in UserMessages
    /\ plan = NoPlan
    /\ run = StartRun(CaseOf(context, user_message), EmptyWorld)
    /\ pc = "input"
    /\ OrchestratorIdle

\* WarrantyOrchestrator._execute_workflow for the turn
Submit ==
    /\ turns < MaxSubmits
    /\ \E elapsed \in ElapsedMonths :
         LET planned == generate_plan(context, user_message)
             ran == IF validate_plan(planned.plan)
                    THEN execute_plan(StartRun(run.case, stores), planned.plan,
                                      elapsed)
                    ELSE RejectPlan(StartRun(run.case, stores))
         IN  /\ plan' = planned
             /\ run' = ran
             /\ stores' = ran.world
    /\ turns' = turns + 1
    /\ pc' = "done"
    /\ UNCHANGED <<context, user_message, cases, history>>

NextSubmit == Submit

SpecSubmit == InitSubmit /\ [][NextSubmit]_vars

(***************************************************************************)
(* Vocabulary of the properties.                                           *)
(***************************************************************************)
\* the plan contains a CALL_TOOL step for the tool
PlanHasTool(steps, tool_name) ==
    \E i \in DOMAIN steps :
        steps[i].step_type = "CALL_TOOL" /\ steps[i].tool_name = tool_name

\* _execute_plan executed the tool
RunCalled(r, tool_name) ==
    \E i \in DOMAIN r.calls : r.calls[i].tool_name = tool_name

Planned == pc # "input"
Executed == pc = "done"

\* gates 1-3 of the decision algorithm let the context through: logged in,
\* registered products, a product identifier and a complete location
HasIdentifier(ctx) == Truthy(ctx.product_id) \/ Truthy(ctx.serial_number)
PastInfoGates(ctx) ==
    /\ ctx.logged_in /\ ctx.has_registered_products
    /\ HasIdentifier(ctx) /\ has_location(ctx.location)
WarrantyDetermined(ctx) ==
    Truthy(ctx.product_type) /\ ctx.warranty_status.active # None
\* a HEAT context that has reached the HEAT branch of the algorithm
HeatContext(ctx) ==
    PastInfoGates(ctx) /\ WarrantyDetermined(ctx) /\ ctx.product_type = "HEAT"

\* the plan is exactly one RETURN_ACTION step of the action type
IsReturnAction(steps, action_type) ==
    /\ Len(steps) = 1
    /\ steps[1].step_type = "RETURN_ACTION"
    /\ steps[1].action_type = action_type

\* the step is ASK_USER_FOR_INFO for proceed_confirmation
IsProceedQuestion(step) ==
    step.step_type = "ASK_USER_FOR_INFO"
    /\ step.required_fields = <<"proceed_confirmation">>
IsCall(step, tool_name) ==
    step.step_type = "CALL_TOOL" /\ step.tool_name = tool_name

\* the customer proceeds (acceptance message or recorded decision) and
\* gives no decline signal
Proceeds(ctx, message) ==
    /\ is_yes(message) \/ ctx.customer_decision = "PROCEED"
    /\ ~is_no(message) /\ ctx.customer_decision # "DECLINE"

(***************************************************************************)
(* C2.  HEAT, the customer accepts, check_territory reports not            *)
(* serviceable: the turn calls get_service_directory and never executes    *)
(* generate_paypal_link, also in the turn in which check_territory runs.   *)
(* Stated on the plan's execution; the code violates it.                   *)
(***************************************************************************)
TerritoryReportedUnserviceable(r) ==
    \E i \in DOMAIN r.calls :
        /\ r.calls[i].tool_name = "check_territory"
        /\ r.calls[i].result.status = "ok"
        /\ r.calls[i].result.data.serviceable = PyFalse
C2_NoLinkOutsideTerritory ==
    (Executed /\ HeatContext(context) /\ Proceeds(context, user_message)
              /\ TerritoryReportedUnserviceable(run))
        => (RunCalled(run, "get_service_directory")
            /\ ~RunCalled(run, "generate_paypal_link"))

(***************************************************************************)
(* C3.  A HEAT context with warranty determined and potential_charges None *)
(* gets [CALL_TOOL calculate_charges, ASK_USER_FOR_INFO                    *)
(* [proceed_confirmation]], whatever the message.  Stated for the contexts *)
(* gates 1-3 let through; the code violates it.                            *)
(***************************************************************************)
C3_ChargesFirst ==
    (Planned /\ HeatContext(context) /\ context.potential_charges = {})
        => /\ Len(plan.plan) = 2
           /\ IsCall(plan.plan[1], "calculate_charges")
           /\ IsProceedQuestion(plan.plan[2])

(***************************************************************************)
(* C4.  HEAT, charges set, no decision yet, a decline keyword in the       *)
(* message: the plan contains log_decline_reason and neither               *)
(* check_territory nor generate_paypal_link.  The code violates it.        *)
(***************************************************************************)
C4_DeclineLogged ==
    (Planned /\ HeatContext(context) /\ context.potential_charges # {}
             /\ context.customer_decision \notin {"PROCEED", "DECLINE"}
             /\ is_no(user_message))
        => /\ PlanHasTool(plan.plan, "log_decline_reason")
           /\ ~PlanHasTool(plan.plan, "check_territory")
           /\ ~PlanHasTool(plan.plan, "generate_paypal_link")

(***************************************************************************)
(* C5.  HEAT, charges set, the customer proceeds: a serviceable territory  *)
(* gives generate_paypal_link and no get_service_directory, an             *)
(* unserviceable one get_service_directory and no generate_paypal_link.    *)
(* Stated for a customer who proceeds without any decline signal and for a *)
(* territory result that a check has recorded; the code violates it.       *)
(***************************************************************************)
C5_TerritoryDecidesLink ==
    (Planned /\ HeatContext(context) /\ context.potential_charges # {}
             /\ Proceeds(context, user_message)
             /\ context.territory_checked = PyTrue)
        => /\ context.territory_serviceable = PyTrue
                => (PlanHasTool(plan.plan, "generate_paypal_link")
                    /\ ~PlanHasTool(plan.plan, "get_service_directory"))
           /\ context.territory_serviceable = PyFalse
                => (PlanHasTool(plan.plan, "get_service_directory")
                    /\ ~PlanHasTool(plan.plan, "generate_paypal_link"))

(***************************************************************************)
(* C6.  logged_in = False: the plan is the single step                     *)
(* RETURN_ACTION(PROMPT_LOGIN) and the turn returns action PROMPT_LOGIN.   *)
(* The code violates it.                                                   *)
(***************************************************************************)
C6_PromptLogin ==
    (Planned /\ ~context.logged_in)
        => /\ IsReturnAction(plan.plan, "PROMPT_LOGIN")
           /\ Executed => run.action = "PROMPT_LOGIN"

(***************************************************************************)
(* C7.  logged_in = True and has_registered_products = False: the plan is  *)
(* the single step RETURN_ACTION(PROMPT_PRODUCT_REGISTRATION) and the turn *)
(* returns that action.  The code violates it.                             *)
(***************************************************************************)
C7_PromptRegistration ==
    (Planned /\ context.logged_in /\ ~context.has_registered_products)
        => /\ IsReturnAction(plan.plan, "PROMPT_PRODUCT_REGISTRATION")
           /\ Executed => run.action = "PROMPT_PRODUCT_REGISTRATION"

(***************************************************************************)
(* C8.  Logged in with registered products: the plan is a single           *)
(* ASK_USER_FOR_INFO for missing information if and only if the product    *)
(* identifier is absent or the location is incomplete, and its             *)
(* required_fields are exactly the missing ones of the two.  (The single   *)
(* proceed_confirmation question of the HEAT branch is not counted as a    *)
(* request for missing information.)  The code violates it.                *)
(***************************************************************************)
MissingOfTwo(ctx) ==
    (IF ~HasIdentifier(ctx) THEN <<"product ID or serial number">> ELSE <<>>)
    \o (IF ~has_location(ctx.location)
        THEN <<"location (zip code or city/state)">> ELSE <<>>)
AsksForInfo(steps) ==
    /\ Len(steps) = 1
    /\ steps[1].step_type = "ASK_USER_FOR_INFO"
    /\ ~IsProceedQuestion(steps[1])
C8_AsksExactlyMissing ==
    (Planned /\ context.logged_in /\ context.has_registered_products)
        => /\ AsksForInfo(plan.plan) <=> MissingOfTwo(context) # <<>>
           /\ AsksForInfo(plan.plan)
                => plan.plan[1].required_fields = MissingOfTwo(context)

(***************************************************************************)
(* C9.  Past gates 1-3 with product_type absent or warranty status not yet *)
(* determined: the plan is exactly [CALL_TOOL get_warranty_record,         *)
(* RESPOND_TO_USER].  The code violates it.                                *)
(***************************************************************************)
C9_WarrantyLookup ==
    (Planned /\ PastInfoGates(context) /\ ~WarrantyDetermined(context))
        => /\ Len(plan.plan) = 2
           /\ IsCall(plan.plan[1], "get_warranty_record")
           /\ plan.plan[2].step_type = "RESPOND_TO_USER"

(***************************************************************************)
(* C10.  A SALT context, whatever the message, customer_decision,          *)
(* potential_charges and territory fields: the plan never contains         *)
(* calculate_charges, check_territory or generate_paypal_link, and so the  *)
(* executor never calls them.                                              *)
(***************************************************************************)
HeatOnlyTools == {"calculate_charges", "check_territory", "generate_paypal_link"}
C10_SaltNeverHeatTools ==
    (Planned /\ context.product_type = "SALT")
        => \A t \in HeatOnlyTools :
              ~PlanHasTool(plan.plan, t) /\ ~RunCalled(run, t)
\* a SALT context that a HEAT plan would take to the payment link was
\* planned and executed as SALT
C10_Witness ==
    /\ Executed /\ context.product_type = "SALT"
    /\ context.potential_charges # {} /\ context.customer_decision = "PROCEED"
    /\ is_yes(user_message) /\ context.territory_checked = None
    /\ RunCalled(run, "route_to_queue")

(***************************************************************************)
(* C11.  A SALT context with warranty determined: an inactive warranty     *)
(* gives exactly [CALL_TOOL get_service_directory, RESPOND_TO_USER], an    *)
(* active one exactly [CALL_TOOL route_to_queue (queue WarrantySalt),      *)
(* CALL_TOOL notify_next_steps, RESPOND_TO_USER].  Stated for the contexts *)
(* gates 1-3 let through; the code violates it.                            *)
(***************************************************************************)
SaltContext(ctx) ==
    PastInfoGates(ctx) /\ WarrantyDetermined(ctx) /\ ctx.product_type = "SALT"
C11_SaltPlans ==
    (Planned /\ SaltContext(context))
        => /\ context.warranty_status.active = PyFalse
                => /\ Len(plan.plan) = 2
                   /\ IsCall(plan.plan[1], "get_service_directory")
                   /\ plan.plan[2].step_type = "RESPOND_TO_USER"
           /\ context.warranty_status.active = PyTrue
                => /\ Len(plan.plan) = 3
                   /\ IsCall(plan.plan[1], "route_to_queue")
                   /\ plan.plan[1].tool_args.queue = "WarrantySalt"
                   /\ IsCall(plan.plan[2], "notify_next_steps")
                   /\ plan.plan[3].step_type = "RESPOND_TO_USER"

(***************************************************************************)
(* C12.  Calling route_to_queue, generate_paypal_link or                   *)
(* log_decline_reason twice with the same idempotency key, whatever action *)
(* calls come in between, returns the same identifier (case_id,            *)
(* payment_id, log_id) both times, and the second result carries           *)
(* duplicate = true.  A key is a non-empty string: None and the empty      *)
(* string are what a call without a key passes.                            *)
(***************************************************************************)
KeyedActions == {"route_to_queue", "generate_paypal_link", "log_decline_reason"}
\* the identifier a result carries
Identifier(call) ==
    CASE call.tool_name = "route_to_queue" -> call.result.data.case_id
      [] call.tool_name = "generate_paypal_link" -> call.result.data.payment_id
      [] call.tool_name = "log_decline_reason" -> call.result.data.log_id
      [] OTHER -> call.result.data.notification_id
\* calls i < j of the same keyed action with the same key
SameKeyAgain(i, j) ==
    /\ i < j
    /\ history[i].tool_name \in KeyedActions
    /\ history[i].tool_name = history[j].tool_name
    /\ Truthy(history[i].idempotency_key)
    /\ history[i].idempotency_key = history[j].idempotency_key
C12_SameKeySameIdentifier ==
    \A i, j \in DOMAIN history :
        SameKeyAgain(i, j)
            => /\ history[j].result.status = "ok"
               /\ Identifier(history[j]) = Identifier(history[i])
               /\ history[j].result.data.duplicate
\* a key was used twice for one action with another action's call under the
\* same key in between
C12_Witness ==
    /\ Len(history) = 3
    /\ SameKeyAgain(1, 3)
    /\ history[2].tool_name \in KeyedActions
    /\ history[2].tool_name # history[1].tool_name
    /\ history[2].idempotency_key = history[1].idempotency_key

(***************************************************************************)
(* C13.  Submitting the same turn twice for one case never performs a      *)
(* side-effecting action twice: the queue, the payment-link and the        *)
(* decline-log stores gain at most one entry for the case, the repeated    *)
(* submission receiving the earlier result marked duplicate.  The code     *)
(* violates it.                                                            *)
(***************************************************************************)
C13_DoubleSubmitActsOnce ==
    /\ Len(stores.queued_cases) <= 1
    /\ Len(stores.generated_links) <= 1
    /\ Len(stores.logged_declines) <= 1

(***************************************************************************)
(* The fold of a warranty lookup and the plan made from the folded case:   *)
(* the executor runs a get_warranty_record step on a new case, the case is *)
(* serialised with to_dict and the planner's branch by product type is     *)
(* applied to that dict.                                                   *)
(***************************************************************************)
FoldProducts == {"HEAT-001", "SALT-001", "HEAT-404"}

FoldRequests ==
    { [logged_in |-> li, has_registered_products |-> rp, product_id |-> p,
       serial_number |-> None, location |-> loc] :
        li \in BOOLEAN, rp \in BOOLEAN, p \in FoldProducts,
        loc \in RequestLocations }

InitFold ==
    /\ \E request \in FoldRequests :
          run = StartRun(from_request(request, CaseId(1)), EmptyWorld)
    /\ context = to_dict(run.case)
    /\ user_message \in RequestMessages
    /\ plan = NoPlan
    /\ pc = "input"
    /\ OrchestratorIdle

\* _execute_plan on a CALL_TOOL get_warranty_record step: _execute_tool, then
\* _update_case_from_tool_result
FoldLookup ==
    /\ pc = "input"
    /\ \E elapsed \in ElapsedMonths :
          run' = execute_step(run, CallTool("get_warranty_record",
                                            [product_id |-> run.case.product_id]),
                              elapsed)
    /\ pc' = "folded"
    /\ UNCHANGED <<context, user_message, plan, cases, stores, turns, history>>

\* case.to_dict() and the planner's steps past the missing-field check
PlanFromCase ==
    /\ pc = "folded"
    /\ context' = to_dict(run.case)
    /\ plan' = plan_with_required_info(to_dict(run.case), user_message)
    /\ pc' = "planned"
    /\ UNCHANGED <<user_message, run, cases, stores, turns, history>>

NextFold == FoldLookup \/ PlanFromCase
SpecFold == InitFold /\ [][NextFold]_vars

HeaterMakesNoise ==
    <<"m", "y", " ", "h", "e", "a", "t", "e", "r", " ", "m", "a", "k", "e", "s",
      " ", "n", "o", "i", "s", "e">>
YesProceed == <<"Y", "e", "s", " ", "p", "r", "o", "c", "e", "e", "d">>
\* the scenario's context dict: no other identifying key than these
ScenarioContext(ctx) ==
    /\ ctx.logged_in /\ ctx.has_registered_products
    /\ ctx.product_id = "HEAT-001" /\ ctx.serial_number = None
    /\ ctx.product_name = None
    /\ ctx.location = [zip |-> "77001", city |-> Absent, state |-> Absent]
    /\ ctx.customer_decision = "PENDING"
C15_LiteralScenario ==
    (Planned /\ ScenarioContext(context))
        => /\ (/\ user_message = HeaterMakesNoise
               /\ context.product_type = None
               /\ context.warranty_status.active = None)
                => IsCall(plan.plan[1], "get_warranty_record")
           /\ (/\ context.product_type = "HEAT"
               /\ context.warranty_status.active = PyTrue
               /\ context.potential_charges = {})
                => /\ Len(plan.plan) = 2
                   /\ IsCall(plan.plan[1], "calculate_charges")
                   /\ plan.plan[2].step_type = "ASK_USER_FOR_INFO"
           /\ (/\ user_message = YesProceed
               /\ context.product_type = "HEAT"
               /\ context.warranty_status.active = PyTrue
               /\ context.potential_charges = {22000}
               /\ context.territory_checked = None)
                => IsCall(plan.plan[1], "check_territory")
           /\ (/\ user_message = YesProceed
               /\ context.product_type = "HEAT"
               /\ context.warranty_status.active = PyTrue
               /\ context.potential_charges = {22000}
               /\ context.territory_checked = PyTrue
               /\ context.territory_serviceable = PyTrue)
                => /\ Len(plan.plan) = 2
                   /\ IsCall(plan.plan[1], "generate_paypal_link")
                   /\ plan.plan[2].step_type = "RESPOND_TO_USER"
                   /\ plan.plan[2].message.amount = {22000}

(***************************************************************************)
(* The orchestrator on a stored case that a warranty lookup and a charge   *)
(* calculation have already filled, as the golden-path tests prepare it by *)
(* assigning the fields of orchestrator._cases[case_id]: one case is       *)
(* stored and process_request handles the next request.                    *)
(***************************************************************************)
\* the first request of the case
StoredRequests ==
    { [logged_in |-> TRUE, has_registered_products |-> TRUE,
       product_id |-> "HEAT-001", serial_number |-> None, location |-> loc] :
        loc \in { [zip |-> "77001", city |-> None, state |-> "TX"],
                  [zip |-> "90210", city |-> None, state |-> "CA"] } }

\* the stored case after the assignments
StoredCases ==
    { [from_request(request, CaseId(1)) EXCEPT
            !.user_messages = <<HeaterMakesNoise>>,
            !.product_type = pt,
            !.product_name = pn,
            !.warranty_status = WarrantyStatus(ws),
            !.potential_charges = ch] :
        request \in StoredRequests, pt \in {"HEAT", "SALT"},
        pn \in {None, "Heat Pump Water Heater Elite"},
        ws \in { [active |-> PyTrue, coverage_types |-> <<"parts", "tank">>],
                 [active |-> PyFalse, coverage_types |-> <<>>] },
        ch \in {{}, {22000}} }

InitStored ==
    /\ \E stored \in StoredCases :
          /\ cases = [id \in {CaseId(1)} |-> stored]
          /\ run = StartRun(stored, EmptyWorld)
    /\ context = to_dict(run.case)
    /\ user_message = HeaterMakesNoise
    /\ plan = NoPlan
    /\ pc = "input"
    /\ stores = EmptyWorld
    /\ turns = 1
    /\ history = <<>>

SpecStored == InitStored /\ [][Next]_vars

(***************************************************************************)
(* C16.  Without an LLM client, process_request for a stored HEAT case     *)
(* with a product id, a complete serviceable location, an active warranty  *)
(* and computed potential_charges, on an acceptance message, executes      *)
(* check_territory and then generate_paypal_link and returns the payment   *)
(* response; the turn does not end by asking the user for information.     *)
(* The code violates it.                                                   *)
(***************************************************************************)
\* the turn just handled was an acceptance on such a stored case
AcceptedOnStoredHeatCase ==
    /\ pc = "done"
    /\ context.case_id = CaseId(1)
    /\ context.product_type = "HEAT"
    /\ HasIdentifier(context)
    /\ context.location.zip \in SERVICEABLE_ZIPS
    /\ context.warranty_status.active = PyTrue
    /\ context.potential_charges # {}
    /\ context.territory_checked = None
    /\ is_yes(user_message) /\ ~is_no(user_message)
C16_StoredHeatCaseGetsPaymentLink ==
    AcceptedOnStoredHeatCase
        => /\ Len(run.calls) = 2
           /\ run.calls[1].tool_name = "check_territory"
           /\ run.calls[2].tool_name = "generate_paypal_link"
           /\ run.action # "ASK_USER"
           /\ run.responses # <<>>
           /\ run.responses[Len(run.responses)].amount = context.potential_charges

(***************************************************************************)
(* The orchestrator over a first request and its follow-up, each request   *)
(* and the action its turn returned kept in history.                       *)
(***************************************************************************)
FollowUpRequests ==
    { request \in Requests :
        /\ request.logged_in /\ request.has_registered_products
        /\ request.serial_number = None
        /\ request.product_id \in {None, "HEAT-001"}
        /\ request.location.zip \in {Absent, "77001"}
        /\ request.case_id \in {NoId, CaseId(1)}
        /\ request.user_message # <<>> }

\* WarrantyOrchestrator.process_request with self.client None, as
\* ProcessRequest
FollowUpTurn(request) ==
    /\ turns < MaxTurns
    /\ \E elapsed \in ElapsedMonths :
         LET got == get_or_create_case(request, cases, CaseId(turns + 1))
             ctx == to_dict(got.case)
             planned == generate_plan(ctx, request.user_message)
             ran == IF validate_plan(planned.plan)
                    THEN execute_plan(StartRun(got.case, stores), planned.plan,
                                      elapsed)
                    ELSE RejectPlan(StartRun(got.case, stores))
         IN  /\ context' = ctx
             /\ user_message' = request.user_message
             /\ plan' = planned
             /\ run' = ran
             /\ stores' = ran.world
             /\ cases' = save_case(got.cases, ran.case)
             /\ history' = Append(history, [request |-> request,
                                            case_id |-> ran.case.case_id,
                                            action |-> ran.action,
                                            action_data |-> ran.action_data])
    /\ turns' = turns + 1
    /\ pc' = "done"

NextFollowUp == \E request \in FollowUpRequests : FollowUpTurn(request)
SpecFollowUp == Init /\ [][NextFollowUp]_vars

(***************************************************************************)
(* C17.  After a turn that ended with ASK_USER because the product         *)
(* identifier or the location was missing, a follow-up request for the     *)
(* same case_id that supplies what was missing is not asked for it again:  *)
(* the case takes the supplied value and the turn goes on to the warranty  *)
(* lookup.  The code violates it.                                          *)
(***************************************************************************)
RequestHasIdentifier(request) ==
    Truthy(request.product_id) \/ Truthy(request.serial_number)
\* the first turn asked because of a missing identifier or location, and the
\* second request names the first turn's case and carries both
SuppliedOnFollowUp ==
    /\ Len(history) = 2
    /\ history[1].action = "ASK_USER"
    /\ ~RequestHasIdentifier(history[1].request)
          \/ ~has_location(history[1].request.location)
    /\ history[2].request.case_id = history[1].case_id
    /\ RequestHasIdentifier(history[2].request)
    /\ has_location(history[2].request.location)
C17_FollowUpNotAskedAgain ==
    SuppliedOnFollowUp
        => /\ context.product_id = history[2].request.product_id
           /\ context.location = Location(history[2].request.location)
           /\ MissingOfTwo(context) = <<>>
           /\ run.action = "ASK_USER"
                => \A i \in DOMAIN run.action_data.required_fields :
                      run.action_data.required_fields[i]
                          \notin {"product ID or serial number",
                                  "location (zip code or city/state)"}
           /\ run.calls # <<>>
           /\ run.calls[1].tool_name = "get_warranty_record"

(***************************************************************************)
(* The executor on any plan, one iteration of the loop of _execute_plan at *)
(* a time: the plan is whatever the Plan Generator handed over, valid or   *)
(* not, with tools that succeed, return an error or raise.  history holds  *)
(* the steps executed so far.                                              *)
(***************************************************************************)
MaxPlanLen == 3

\* a location whose state is None: calculate_charges raises on it
RaisingLocation == [zip |-> "77001", city |-> None, state |-> None]

ExecSteps == {
    CallTool("get_warranty_record", [product_id |-> "HEAT-001"]),
    CallTool("get_warranty_record", [product_id |-> "HEAT-404"]),
    CallTool("calculate_charges",
             [product_id |-> "HEAT-001", product_type |-> "HEAT",
              warranty_status |-> DefaultWarrantyStatus,
              location |-> RaisingLocation]),
    CallTool("route_to_queue", [queue |-> "WarrantyHeat", priority |-> "normal"]),
    CallTool("send_fax", NoArgs),
    RespondToUser(Msg("first")),
    RespondToUser(Msg("second")),
    AskUserForInfo(<<"proceed_confirmation">>, Msg("ask")),
    PlanStep("RETURN_ACTION", None, NoArgs, "CASE_COMPLETE", <<>>, Msg("bye")),
    PlanStep("RETURN_ACTION", None, NoArgs, "SELF_DESTRUCT", <<>>, Msg("bye")),
    PlanStep("DO_MAGIC", None, NoArgs, None, <<>>, NoMessage) }

ExecPlans == UNION { [1..n -> ExecSteps] : n \in 1..MaxPlanLen }

\* the case of the turn: a HEAT case before and after its lookup and charges
ExecContexts ==
    { ctx \in PlanContexts :
        /\ ctx.logged_in /\ ctx.has_registered_products
        /\ ctx.product_id = "HEAT-001" /\ ctx.serial_number = None
        /\ ctx.product_name # None
        /\ ctx.location = [zip |-> "77001", city |-> None, state |-> "TX"]
        /\ ctx.customer_decision = "PENDING"
        /\ <<ctx.territory_checked, ctx.territory_serviceable>> = <<None, None>>
        /\ \/ /\ ctx.product_type = None
              /\ ctx.warranty_status.active = None
              /\ ctx.potential_charges = {}
           \/ /\ ctx.product_type = "HEAT"
              /\ ctx.warranty_status.active = PyTrue
              /\ ctx.potential_charges = {22000} }

InitExec ==
    /\ context \in ExecContexts
    /\ user_message = HeaterMakesNoise
    /\ \E steps \in ExecPlans : plan = [plan |-> steps, reasoning |-> None]
    /\ run = StartRun(CaseOf(context, user_message), EmptyWorld)
    /\ pc = "planned"
    /\ OrchestratorIdle

\* _execute_workflow step 2: _validate_plan raises PlanValidationError, which
\* is caught there and returned as a response with no action
RejectInvalidPlan ==
    /\ pc = "planned"
    /\ ~validate_plan(plan.plan)
    /\ run' = RejectPlan(run)
    /\ pc' = "done"
    /\ UNCHANGED <<context, user_message, plan, cases, stores, turns, history>>

\* an iteration that goes on after the loop's break
ExecuteStepPastBreak ==
    /\ pc \in {"planned", "running"}
    /\ validate_plan(plan.plan)
    /\ Len(history) < Len(plan.plan)
    /\ \E elapsed \in ElapsedMonths :
          run' = execute_step(run, plan.plan[Len(history) + 1], elapsed)
    /\ history' = Append(history, plan.plan[Len(history) + 1])
    /\ pc' = "running"
    /\ UNCHANGED <<context, user_message, plan, cases, stores, turns>>

\* one iteration of the for loop of _execute_plan
ExecuteStep ==
    /\ pc \in {"planned", "running"}
    /\ validate_plan(plan.plan)
    /\ ~run.stopped
    /\ Len(history) < Len(plan.plan)
    /\ \E elapsed \in ElapsedMonths :
          run' = execute_step(run, plan.plan[Len(history) + 1], elapsed)
    /\ history' = Append(history, plan.plan[Len(history) + 1])
    /\ pc' = "running"
    /\ UNCHANGED <<context, user_message, plan, cases, stores, turns>>

\* the loop is over (break, or no step left): _execute_plan returns
ReturnResult ==
    /\ pc \in {"planned", "running"}
    /\ validate_plan(plan.plan)
    /\ run.stopped \/ Len(history) = Len(plan.plan)
    /\ pc' = "done"
    /\ UNCHANGED <<context, user_message, plan, run, cases, stores, turns, history>>

NextExec == RejectInvalidPlan \/ ExecuteStep \/ ReturnResult
SpecExec == InitExec /\ [][NextExec]_vars

\* a step that ends the turn
EndsTurn(step) == step.step_type \in {"RETURN_ACTION", "ASK_USER_FOR_INFO"}
\* the index of the first such step, or one past the plan
FirstEnd(steps) ==
    IF \E i \in DOMAIN steps : EndsTurn(steps[i])
    THEN CHOOSE i \in DOMAIN steps :
            EndsTurn(steps[i]) /\ \A j \in 1..(i - 1) : ~EndsTurn(steps[j])
    ELSE Len(steps) + 1
\* the steps up to and including the first that ends the turn
UpToFirstEnd(steps) ==
    SubSeq(steps, 1, IF FirstEnd(steps) > Len(steps) THEN Len(steps)
                     ELSE FirstEnd(steps))
IsToolStep(step) == step.step_type = "CALL_TOOL"
HasMessage(step) == step.step_type # "CALL_TOOL"
ToolNames(calls) == [i \in DOMAIN calls |-> calls[i].tool_name]
StepMessages(steps) == [i \in DOMAIN steps |-> StepMessage(steps[i])]

(***************************************************************************)
(* C18.  execute_plan runs the steps in plan order and stops at the first  *)
(* RETURN_ACTION or ASK_USER_FOR_INFO step: the tools called are those of  *)
(* the CALL_TOOL steps before it, in order, and the messages appended are  *)
(* those of the steps up to it, so no later step acts; the action returned *)
(* is the step's action_type for RETURN_ACTION, and ASK_USER with the      *)
(* step's required_fields as action_data for ASK_USER_FOR_INFO.            *)
(***************************************************************************)
C18_StopsAtFirstEnd ==
    (pc = "done" /\ validate_plan(plan.plan))
        => LET steps == plan.plan
               ran == UpToFirstEnd(steps)
               k == FirstEnd(steps)
           IN  /\ history = ran
               /\ ToolNames(run.calls) = ToolNames(SelectSeq(ran, IsToolStep))
               /\ run.responses = StepMessages(SelectSeq(ran, HasMessage))
               /\ k > Len(steps) => run.action = None
               /\ (k <= Len(steps) /\ steps[k].step_type = "RETURN_ACTION")
                     => run.action = steps[k].action_type
               /\ (k <= Len(steps) /\ steps[k].step_type = "ASK_USER_FOR_INFO")
                     => /\ run.action = "ASK_USER"
                        /\ run.action_data =
                              [required_fields |-> steps[k].required_fields]
\* a plan whose second step ends the turn, between a tool call and a
\* route_to_queue that is never made
C18_Witness ==
    /\ pc = "done"
    /\ Len(plan.plan) = 3
    /\ IsCall(plan.plan[1], "get_warranty_record")
    /\ plan.plan[2].step_type = "ASK_USER_FOR_INFO"
    /\ IsCall(plan.plan[3], "route_to_queue")
    /\ Len(run.calls) = 1
    /\ run.world = EmptyWorld
    /\ run.action = "ASK_USER"

(***************************************************************************)
(* C19.  A tool invocation that raises or returns status error during      *)
(* execute_plan becomes a structured error result (status error with an    *)
(* error_code), that step leaves the case unchanged and does not end the   *)
(* loop, and the executor goes on: when the turn returns, every step up to *)
(* the first RETURN_ACTION or ASK_USER_FOR_INFO has been executed and the  *)
(* turn has a response.                                                    *)
(***************************************************************************)
\* the step just taken was a tool call that failed
ToolFailed ==
    /\ Len(run'.calls) = Len(run.calls) + 1
    /\ run'.calls[Len(run'.calls)].result.status = "error"
C19_FailedToolIsNoOp ==
    [][ /\ ToolFailed
            => /\ run'.calls[Len(run'.calls)].result.error_code
                      \in {"TOOL_ERROR", "PRODUCT_NOT_FOUND", "UNKNOWN_TOOL"}
               /\ run'.case = run.case
               /\ run'.world = run.world
               /\ run'.responses = run.responses
               /\ ~run'.stopped
        /\ (pc' = "done" /\ validate_plan(plan.plan))
            => /\ history' = UpToFirstEnd(plan.plan)
               /\ full_response(run') # <<>> ]_vars
\* a raising tool and a tool returning an error were followed by a lookup
\* that succeeded and was folded
C19_Witness ==
    /\ pc = "done"
    /\ Len(run.calls) = 3
    /\ run.calls[1].result.error_code = "TOOL_ERROR"
    /\ run.calls[2].result.error_code = "PRODUCT_NOT_FOUND"
    /\ run.calls[3].result.status = "ok"
    /\ context.product_type = None
    /\ run.case.product_type = "HEAT"

(***************************************************************************)
(* C20.  A plan with a step whose step_type is not one of the four step    *)
(* types, or a RETURN_ACTION whose action_type is not one of the four      *)
(* action types, is rejected before any of its steps is executed, and the  *)
(* violation is raised to the orchestrator's top-level handler instead of  *)
(* being returned as a normal user-facing response.  The code violates     *)
(* the second half.                                                        *)
(***************************************************************************)
\* the turn is over and its plan broke the plan contract
InvalidPlanHandled == pc = "done" /\ ~validate_plan(plan.plan)
\* _execute_workflow returned a response dict, which process_request sends
\* with status "ok"
ReturnedAsResponse == pc = "done" /\ run.responses # <<>>
C20_InvalidPlanRaised ==
    InvalidPlanHandled
        => /\ history = <<>>
           /\ run.calls = <<>>
           /\ run.case = CaseOf(context, user_message)
           /\ run.world = EmptyWorld
           /\ ~ReturnedAsResponse

(***************************************************************************)
(* process_request with its top-level handler: a request is the pair of    *)
(* its messages and its context object, and either may come as null.  A    *)
(* null context raises before a case is found; a latest user message whose *)
(* content is null raises after get_or_create_case, at user_message[:200]. *)
(* history holds each request with the result the caller received.         *)
(***************************************************************************)
\* the default of context.get("case_id", "unknown") in the handler
UnknownCase == <<"unknown">>
\* a case_id no case was ever stored under
StrangerId == CaseId(9)

HandledRequests ==
    { [context_is_null |-> cn, content_is_null |-> mn, context |-> c] :
        cn \in BOOLEAN, mn \in BOOLEAN,
        c \in { [logged_in |-> TRUE, has_registered_products |-> TRUE,
                 product_id |-> id, serial_number |-> None,
                 product_name |-> None,
                 location |-> [zip |-> "77001", city |-> None, state |-> "TX"],
                 case_id |-> cid, user_message |-> m] :
                    id \in {None, "HEAT-001"},
                    cid \in {NoId, CaseId(1), StrangerId},
                    m \in {<<>>, YesProceed} } }

\* what the caller receives when the exception leaves process_request
Escaped == [status |-> "raised", case_id |-> NoId, response |-> None]
\* the dict the except clause returns
ErrorResult(request_context) ==
    [status |-> "error",
     case_id |-> IF request_context.case_id = NoId THEN UnknownCase
                 ELSE request_context.case_id,
     response |-> "apology"]

\* WarrantyOrchestrator.process_request, self.client None
HandleRequest(request) ==
    /\ turns < MaxTurns
    /\ \E elapsed \in ElapsedMonths :
         IF request.context_is_null
         THEN \* context.get raises, and so does the handler's own
              \* request.get("context", {}).get
              /\ history' = Append(history, [request |-> request,
                                             case_of_turn |-> NoId,
                                             result |-> Escaped])
              /\ UNCHANGED <<context, user_message, plan, run, cases, stores>>
         ELSE LET internal == [request.context EXCEPT
                                  !.user_message = IF request.content_is_null
                                                   THEN <<>> ELSE @]
                  got == get_or_create_case(internal, cases, CaseId(turns + 1))
                  ctx == to_dict(got.case)
                  planned == generate_plan(ctx, internal.user_message)
                  ran == IF validate_plan(planned.plan)
                         THEN execute_plan(StartRun(got.case, stores),
                                           planned.plan, elapsed)
                         ELSE RejectPlan(StartRun(got.case, stores))
              IN  IF request.content_is_null
                  THEN \* the case is found or created and stored, then
                       \* user_message[:200] raises
                       /\ cases' = got.cases
                       /\ history' = Append(history,
                                            [request |-> request,
                                             case_of_turn |-> got.case.case_id,
                                             result |-> ErrorResult(request.context)])
                       /\ UNCHANGED <<context, user_message, plan, run, stores>>
                  ELSE /\ context' = ctx
                       /\ user_message' = internal.user_message
                       /\ plan' = planned
                       /\ run' = ran
                       /\ stores' = ran.world
                       /\ cases' = save_case(got.cases, ran.case)
                       /\ history' = Append(history,
                                            [request |-> request,
                                             case_of_turn |-> ran.case.case_id,
                                             result |-> [status |-> "ok",
                                                         case_id |-> ran.case.case_id,
                                                         response |-> "response"]])
    /\ turns' = turns + 1
    /\ pc' = "done"

NextHandle == \E request \in HandledRequests : HandleRequest(request)
SpecHandle == Init /\ [][NextHandle]_vars

(***************************************************************************)
(* C21.  If anything raises uncaught during process_request, the caller    *)
(* receives status error with the generic apology, and the case_id in it   *)
(* is the case's id whenever that is known: supplied in the request, or    *)
(* found or created for the turn before the failure.  The code violates    *)
(* it.                                                                     *)
(***************************************************************************)
C21_FailureKeepsCaseId ==
    \A i \in DOMAIN history :
        history[i].result.status # "ok"
            => /\ history[i].result.status = "error"
               /\ history[i].result.response = "apology"
               /\ history[i].case_of_turn # NoId
                     => history[i].result.case_id = history[i].case_of_turn
               /\ (history[i].case_of_turn = NoId
                    /\ history[i].request.context.case_id # NoId)
                     => history[i].result.case_id = history[i].request.context.case_id

(***************************************************************************)
(* C22.  A case's case_id is the one generated at its creation and never   *)
(* changes, whatever the turn plans and whatever tool results are folded:  *)
(* after the plan has run the case still has the case_id it was handed to  *)
(* the planner with.  The code violates it.                                *)
(***************************************************************************)
C22_CaseIdImmutable ==
    Executed => run.case.case_id = context.case_id

(***************************************************************************)
(* C23.  potential_charges is written at most once per case.  On every     *)
(* state a case can be in, one turn keeps it so: when the context has       *)
(* potential_charges the plan contains no calculate_charges and the case    *)
(* leaves the turn with the same amount; when it has none, the case gets    *)
(* one only by the fold of a successful calculate_charges result, and the   *)
(* amount is that result's total.                                           *)
(***************************************************************************)
\* the successful calculate_charges calls of the run
ChargeResults(r) ==
    { r.calls[i].result.data.summary.total_potential_charges :
        i \in { j \in DOMAIN r.calls :
                  /\ r.calls[j].tool_name = "calculate_charges"
                  /\ r.calls[j].result.status = "ok" } }
C23_ChargesSetOnce ==
    /\ (Planned /\ context.potential_charges # {})
          => ~PlanHasTool(plan.plan, "calculate_charges")
    /\ (Executed /\ context.potential_charges # {})
          => /\ ~RunCalled(run, "calculate_charges")
             /\ run.case.potential_charges = context.potential_charges
    /\ (Executed /\ context.potential_charges = {}
                 /\ run.case.potential_charges # {})
          => ChargeResults(run) = {run.case.potential_charges}
\* a turn calculated the charges of a HEAT case that had none
C23_Witness ==
    /\ Executed
    /\ context.product_type = "HEAT"
    /\ context.potential_charges = {}
    /\ run.case.potential_charges # {}
    /\ run.action = "ASK_USER"

(***************************************************************************)
(* C24.  Once territory_checked is set for a case, no later plan for it    *)
(* contains check_territory, and territory_checked and                     *)
(* territory_serviceable never change again.  On every state a case can be *)
(* in, one turn keeps it so; and a case whose territory was not checked    *)
(* gets the two fields only from a successful check_territory result.      *)
(***************************************************************************)
C24_TerritoryCheckedOnce ==
    /\ (Planned /\ context.territory_checked # None)
          => ~PlanHasTool(plan.plan, "check_territory")
    /\ (Executed /\ context.territory_checked # None)
          => /\ ~RunCalled(run, "check_territory")
             /\ run.case.territory_checked = context.territory_checked
             /\ run.case.territory_serviceable = context.territory_serviceable
    /\ (Executed /\ context.territory_checked = None)
          => \/ /\ run.case.territory_checked = None
                /\ run.case.territory_serviceable = context.territory_serviceable
             \/ /\ run.case.territory_checked = PyTrue
                /\ \E i \in DOMAIN run.calls :
                      /\ run.calls[i].tool_name = "check_territory"
                      /\ run.calls[i].result.status = "ok"
                      /\ run.calls[i].result.data.serviceable
                            = run.case.territory_serviceable
\* the customer of a HEAT case whose territory was checked accepts, and the
\* turn goes to the payment link without another check
C24_Witness ==
    /\ Executed
    /\ context.territory_checked = PyTrue
    /\ context.territory_serviceable = PyTrue
    /\ is_yes(user_message)
    /\ Len(run.calls) = 1
    /\ run.calls[1].tool_name = "generate_paypal_link"

(***************************************************************************)
(* C25.  customer_decision starts as PENDING and, once it is PROCEED or    *)
(* DECLINE, is never PENDING again for the case; it changes only on the    *)
(* user's intent in the latest message or an upstream signal, never as a   *)
(* side effect of a tool result.  A case created from a request has        *)
(* PENDING whatever the request carries, and on every state a case can be  *)
(* in, one turn, whatever tools it folds, leaves a                         *)
(* PROCEED or DECLINE in place and changes the decision only if the        *)
(* message is a yes or a no.                                               *)
(***************************************************************************)
C25_DecisionNeverReverts ==
    /\ from_request(context, NoId).customer_decision = "PENDING"
    /\ (Executed /\ context.customer_decision # "PENDING")
          => run.case.customer_decision # "PENDING"
    /\ (Executed /\ run.case.customer_decision # context.customer_decision)
          => is_yes(user_message) \/ is_no(user_message)
\* a case that had declined went through a turn that logged the decline
C25_Witness ==
    /\ Executed
    /\ context.customer_decision = "DECLINE"
    /\ RunCalled(run, "log_decline_reason")
    /\ run.case.customer_decision = "DECLINE"

(***************************************************************************)
(* C26.  In every state of a case, product_type is set and warranty_status *)
(* differs from its default only if a get_warranty_record call for the     *)
(* case returned status ok; a failed lookup (product not found) leaves     *)
(* both at their defaults, and the plan made next from the case starts     *)
(* with the lookup again.  As for C14 the plan is the planner's past its   *)
(* missing-field check.                                                    *)
(***************************************************************************)
LookupSucceeded ==
    \E i \in DOMAIN run.calls :
        /\ run.calls[i].tool_name = "get_warranty_record"
        /\ run.calls[i].result.status = "ok"
LastHandled == history'[Len(history')]
C27_CaseStoreOnlyGrows ==
    [][ /\ DOMAIN cases \subseteq DOMAIN cases'
        /\ \A id \in DOMAIN cases' : cases'[id].case_id = id
        /\ \A id \in DOMAIN cases :
              id # LastHandled.case_of_turn => cases'[id] = cases[id]
        /\ (~LastHandled.request.context_is_null
             /\ LastHandled.request.context.case_id \in DOMAIN cases)
              => /\ DOMAIN cases' = DOMAIN cases
                 /\ LastHandled.case_of_turn = LastHandled.request.context.case_id
        /\ (~LastHandled.request.context_is_null
             /\ LastHandled.request.context.case_id \notin DOMAIN cases)
              => /\ Cardinality(DOMAIN cases' \ DOMAIN cases) = 1
                 /\ LastHandled.case_of_turn \in DOMAIN cases' \ DOMAIN cases ]_vars
\* a second request carried the id of the case the first one created and was
\* served on it
C27_Witness ==
    /\ Len(history) = 2
    /\ history[1].request.context.case_id = NoId
    /\ history[2].request.context.case_id = history[1].case_of_turn
    /\ history[2].case_of_turn = history[1].case_of_turn
    /\ history[2].result.status = "ok"
    /\ DOMAIN cases = {history[1].case_of_turn}
    /\ Len(cases[history[1].case_of_turn].user_messages) = 2

(***************************************************************************)
(* The planner called again and again on one context and message: the      *)
(* get_plan tool is stateless, each call builds its steps list anew and    *)
(* only reads the context.  history holds what each call was given and     *)
(* what it returned.                                                       *)
(***************************************************************************)
MaxPlans == 2

\* a planner whose steps list outlives the call
GetPlanKeepingSteps ==
    /\ Len(history) < MaxPlans
    /\ plan' = [plan |-> plan.plan \o generate_plan(context, user_message).plan,
                reasoning |-> generate_plan(context, user_message).reasoning]
    /\ history' = Append(history, [context |-> context,
                                   user_message |-> user_message,
                                   plan |-> plan'])
    /\ pc' = "planned"
    /\ UNCHANGED <<context, user_message, run, cases, stores, turns>>

\* planner.handle_request, tools/call get_plan -> generate_plan
GetPlanAgain ==
    /\ Len(history) < MaxPlans
    /\ plan' = generate_plan(context, user_message)
    /\ history' = Append(history, [context |-> context,
                                   user_message |-> user_message,
                                   plan |-> plan'])
    /\ pc' = "planned"
    /\ UNCHANGED <<context, user_message, run, cases, stores, turns>>

NextReplan == GetPlanAgain
SpecReplan == InitPlan /\ [][NextReplan]_vars

ClassifyMessages == {
    <<>>,
    <<"Y", "e", "s">>,
    <<"P", "R", "O", "C", "E", "E", "D">>,
    <<"p", "l", "e", "a", "s", "e", " ", "c", "o", "n", "t", "i", "n", "u", "e">>,
    <<"O", "K">>,
    <<"S", "u", "r", "e">>,
    <<"I", " ", "a", "g", "r", "e", "e">>,
    <<"G", "o", " ", "a", "h", "e", "a", "d">>,
    <<"L", "e", "t", "'", "s", " ", "d", "o", " ", "i", "t">>,
    <<"N", "o">>,
    <<"C", "a", "n", "c", "e", "l", " ", "i", "t">>,
    <<"s", "t", "o", "p">>,
    <<"I", " ", "d", "e", "c", "l", "i", "n", "e">>,
    <<"I", " ", "d", "o", "n", "'", "t">>,
    <<"d", "o", "n", "t">>,
    <<"T", "o", "o", " ", "e", "x", "p", "e", "n", "s", "i", "v", "e">>,
    <<"c", "a", "n", "'", "t", " ", "a", "f", "f", "o", "r", "d">>,
    <<"O", "K", " ", "n", "o", " ", "t", "h", "a", "n", "k", "s">>,
    <<"h", "m", "m">>,
    <<"m", "a", "y", "b", "e", " ", "l", "a", "t", "e", "r">>,
    <<"m", "y", " ", "h", "e", "a", "t", "e", "r", " ", "m", "a", "k", "e", "s", " ", "n", "o", "i", "s", "e">> }

ClassifyContexts ==
    { c \in PlanContexts :
        /\ c.logged_in /\ c.has_registered_products
        /\ c.product_type = "HEAT" /\ c.warranty_status.active # None
        /\ c.potential_charges # {} }

InitClassify ==
    /\ context \in ClassifyContexts
    /\ user_message \in ClassifyMessages
    /\ plan = NoPlan
    /\ run = StartRun(CaseOf(context, user_message), EmptyWorld)
    /\ pc = "input"
    /\ OrchestratorIdle

SpecClassify == InitClassify /\ [][NextPlan]_vars

\* the three plans of the HEAT branch once the charges are known
IsDeclinePlan(steps) ==
    /\ Len(steps) = 2
    /\ IsCall(steps[1], "log_decline_reason")
    /\ steps[2].step_type = "RESPOND_TO_USER"
IsAcceptPlan(steps) ==
    /\ steps # <<>>
    /\ steps[Len(steps)].step_type = "RESPOND_TO_USER"
    /\ \/ PlanHasTool(steps, "generate_paypal_link")
       \/ PlanHasTool(steps, "get_service_directory")
    /\ ~PlanHasTool(steps, "log_decline_reason")
IsClarification(steps) ==
    Len(steps) = 1 /\ IsProceedQuestion(steps[1])

\* the phrases as the claim lists them
ListedAcceptWords == {
    <<"y", "e", "s">>,
    <<"p", "r", "o", "c", "e", "e", "d">>,
    <<"c", "o", "n", "t", "i", "n", "u", "e">>,
    <<"o", "k">>,
    <<"s", "u", "r", "e">>,
    <<"a", "g", "r", "e", "e">>,
    <<"g", "o", " ", "a", "h", "e", "a", "d">> }
ListedDeclineWords == {
    <<"n", "o">>,
    <<"c", "a", "n", "c", "e", "l">>,
    <<"s", "t", "o", "p">>,
    <<"d", "e", "c", "l", "i", "n", "e">>,
    <<"d", "o", "n", "'", "t">>,
    <<"d", "o", "n", "t">>,
    <<"e", "x", "p", "e", "n", "s", "i", "v", "e">>,
    <<"c", "a", "n", "'", "t", " ", "a", "f", "f", "o", "r", "d">> }
LetsDoIt == <<"l", "e", "t", "'", "s", " ", "d", "o", " ", "i", "t">>

ContainsAny(message, words) == \E w \in words : Contains(lower(message), w)

\* a HEAT context with charges and no stored decision
UndecidedHeat(ctx) ==
    /\ HeatContext(ctx) /\ ctx.potential_charges # {}
    /\ ctx.customer_decision = "PENDING"

C30_DeclineTakesPrecedence ==
    LET decline == ContainsAny(user_message, ListedDeclineWords)
        accept == ContainsAny(user_message, ListedAcceptWords \cup {LetsDoIt})
    IN  (Planned /\ HeatContext(context) /\ context.potential_charges # {})
            => /\ (decline /\ (accept \/ context.customer_decision = "PROCEED"))
                    => IsDeclinePlan(plan.plan)
               /\ context.customer_decision = "DECLINE"
                    => \A t \in {"check_territory", "generate_paypal_link"} :
                          ~PlanHasTool(plan.plan, t) /\ ~RunCalled(run, t)

(***************************************************************************)
(* C31.  HEAT context, charges set, customer_decision PENDING, a message   *)
(* matching neither keyword list: the plan is exactly one                  *)
(* ASK_USER_FOR_INFO step with required_fields [proceed_confirmation]      *)
(* whose message restates the charge amount, and no tool is called.  The   *)
(* code violates it.                                                       *)
(***************************************************************************)
C31_UnclearAsksAgain ==
    (Planned /\ UndecidedHeat(context)
             /\ ~is_yes(user_message) /\ ~is_no(user_message))
        => /\ Len(plan.plan) = 1
           /\ IsProceedQuestion(plan.plan[1])
           /\ plan.plan[1].message.amount = context.potential_charges
           /\ Executed => run.calls = <<>>

(***************************************************************************)
(* C32.  A context past the information and warranty gates whose           *)
(* product_type is neither SALT nor HEAT: the plan is [RESPOND_TO_USER,    *)
(* RETURN_ACTION(ESCALATE)] with no tool call, and the turn ends with      *)
(* action ESCALATE.  The code violates it.                                 *)
(***************************************************************************)
C32_UnknownTypeEscalates ==
    (Planned /\ PastInfoGates(context) /\ WarrantyDetermined(context)
             /\ context.product_type \notin {"SALT", "HEAT"})
        => /\ Len(plan.plan) = 2
           /\ plan.plan[1].step_type = "RESPOND_TO_USER"
           /\ plan.plan[2].step_type = "RETURN_ACTION"
           /\ plan.plan[2].action_type = "ESCALATE"
           /\ Executed => (run.action = "ESCALATE" /\ run.calls = <<>>)

(***************************************************************************)
(* C33.  A turn whose message is classified as acceptance (decline) for a  *)
(* HEAT case with charges set leaves the case with customer_decision       *)
(* PROCEED (DECLINE), so that the plan of a later message without any      *)
(* keyword is not the question for proceed_confirmation again.  Stated for *)
(* the contexts that carry a product name, the later plan taken past the   *)
(* missing-field check; the code violates it.                              *)
(***************************************************************************)
NoKeywordMessage == <<"h", "m", "m">>
LaterPlan(case) == plan_with_required_info(to_dict(case), NoKeywordMessage).plan
C33_DecisionIsRecorded ==
    (Executed /\ UndecidedHeat(context) /\ context.product_name # None)
        => /\ IsAcceptPlan(plan.plan)
                => /\ run.case.customer_decision = "PROCEED"
                   /\ ~IsClarification(LaterPlan(run.case))
           /\ IsDeclinePlan(plan.plan)
                => /\ run.case.customer_decision = "DECLINE"
                   /\ ~IsClarification(LaterPlan(run.case))

(***************************************************************************)
(* C34.  A case identified only by the serial number of a known product    *)
(* (no product_id) passes the missing-field gate; its planned              *)
(* get_warranty_record step returns that product's record with status ok,  *)
(* and the fold leaves the case past the warranty gate.  Stated for the    *)
(* contexts that carry a product name and a location; the code violates    *)
(* it.                                                                     *)
(***************************************************************************)
SerialOnly(ctx) ==
    /\ ~Truthy(ctx.product_id)
    /\ SERIAL_TO_PRODUCT(ctx.serial_number) # None
C34_SerialNumberLookup ==
    (Executed /\ SerialOnly(context) /\ has_location(context.location)
              /\ context.product_name # None /\ ~WarrantyDetermined(context))
        => /\ ~AsksForInfo(plan.plan)
           /\ IsCall(plan.plan[1], "get_warranty_record")
           /\ run.calls # <<>>
           /\ run.calls[1].tool_name = "get_warranty_record"
           /\ run.calls[1].result.status = "ok"
           /\ run.calls[1].result.data.product_id
                 = SERIAL_TO_PRODUCT(context.serial_number)
           /\ WarrantyDetermined(to_dict(run.case))

(***************************************************************************)
(* C35.  A call to route_to_queue, generate_paypal_link or                 *)
(* log_decline_reason with an idempotency key already recorded in that     *)
(* action's store leaves the store as it was, no entry added or modified,  *)
(* whatever the other arguments of the call; a call without a key appends  *)
(* one entry and leaves the earlier ones as they were.                     *)
(***************************************************************************)
StoreOf(world, tool_name) ==
    CASE tool_name = "route_to_queue" -> world.queued_cases
      [] tool_name = "generate_paypal_link" -> world.generated_links
      [] tool_name = "log_decline_reason" -> world.logged_declines
KeyRecorded(store, idempotency_key) ==
    /\ idempotency_key \notin {None, ""}
    /\ \E i \in DOMAIN store : store[i].idempotency_key = idempotency_key
LastCall == history'[Len(history')]
C35_KeyedCallIsIdempotent ==
    [][ (Len(history') = Len(history) + 1 /\ LastCall.tool_name \in KeyedActions)
          => LET before == StoreOf(stores, LastCall.tool_name)
                 after == StoreOf(stores', LastCall.tool_name)
             IN  /\ KeyRecorded(before, LastCall.idempotency_key)
                      => after = before
                 /\ LastCall.idempotency_key = None
                      => /\ Len(after) = Len(before) + 1
                         /\ SubSeq(after, 1, Len(before)) = before
                         /\ after[Len(after)].idempotency_key = None ]_vars
\* a key was used twice on route_to_queue, with a call without a key in
\* between: the keyed case is queued once, the third call is the duplicate
C35_Witness ==
    /\ Len(history) = 3
    /\ \A i \in 1..3 : history[i].tool_name = "route_to_queue"
    /\ history[1].idempotency_key = "key-1"
    /\ history[2].idempotency_key = None
    /\ history[3].idempotency_key = "key-1"
    /\ history[3].result.data.duplicate
    /\ Len(stores.queued_cases) = 2

(***************************************************************************)
(* _execute_plan with the await of a CALL_TOOL step made visible: the step *)
(* first issues the call (await self._execute_tool) and, when the call     *)
(* completes, folds its result (_update_case_from_tool_result); the loop   *)
(* goes to the next step only then.  history records the events of the     *)
(* loop: a call issued ("start", with the case as the call sees it), a     *)
(* result folded ("folded", with the case after the fold), another step    *)
(* executed ("step").                                                      *)
(***************************************************************************)
IsStepEvent(e) == e.event \in {"start", "step"}
\* the number of steps the loop has taken up
Position == Len(SelectSeq(history, IsStepEvent))
\* the calls issued whose result has not been folded
InFlight ==
    { i \in DOMAIN history :
        /\ history[i].event = "start"
        /\ ~\E j \in DOMAIN history :
              history[j].event = "folded" /\ history[j].index = history[i].index }
Event(event, index, case) == [event |-> event, index |-> index, case |-> case]

\* a loop that issues the next call while one is in flight
StartToolCallUnawaited ==
    /\ pc \in {"planned", "running", "awaiting"}
    /\ validate_plan(plan.plan)
    /\ ~run.stopped
    /\ Position < Len(plan.plan)
    /\ plan.plan[Position + 1].step_type = "CALL_TOOL"
    /\ history' = Append(history, Event("start", Position + 1, run.case))
    /\ pc' = "awaiting"
    /\ UNCHANGED <<context, user_message, plan, run, cases, stores, turns>>

\* _execute_plan, CALL_TOOL: result = await self._execute_tool(...) is issued
StartToolCall ==
    /\ pc \in {"planned", "running"}
    /\ validate_plan(plan.plan)
    /\ ~run.stopped
    /\ Position < Len(plan.plan)
    /\ plan.plan[Position + 1].step_type = "CALL_TOOL"
    /\ history' = Append(history, Event("start", Position + 1, run.case))
    /\ pc' = "awaiting"
    /\ UNCHANGED <<context, user_message, plan, run, cases, stores, turns>>

\* the awaited call completes and _update_case_from_tool_result folds it
FoldToolResult ==
    /\ pc = "awaiting"
    /\ InFlight # {}
    /\ LET i == CHOOSE i \in InFlight : \A j \in InFlight : i <= j
           index == history[i].index
       IN  \E elapsed \in ElapsedMonths :
              /\ run' = execute_step(run, plan.plan[index], elapsed)
              /\ history' = Append(history, Event("folded", index, run'.case))
    /\ pc' = "running"
    /\ UNCHANGED <<context, user_message, plan, cases, stores, turns>>

\* _execute_plan on a step of another type
ExecuteOtherStep ==
    /\ pc \in {"planned", "running"}
    /\ validate_plan(plan.plan)
    /\ ~run.stopped
    /\ Position < Len(plan.plan)
    /\ plan.plan[Position + 1].step_type # "CALL_TOOL"
    /\ run' = execute_step(run, plan.plan[Position + 1], 6)
    /\ history' = Append(history, Event("step", Position + 1, run.case))
    /\ pc' = "running"
    /\ UNCHANGED <<context, user_message, plan, cases, stores, turns>>

\* the loop is over (break, or no step left): _execute_plan returns
FinishPlan ==
    /\ pc \in {"planned", "running"}
    /\ validate_plan(plan.plan)
    /\ run.stopped \/ Position = Len(plan.plan)
    /\ pc' = "done"
    /\ UNCHANGED <<context, user_message, plan, run, cases, stores, turns, history>>

NextAwait ==
    RejectInvalidPlan \/ StartToolCall \/ FoldToolResult \/ ExecuteOtherStep
    \/ FinishPlan
SpecAwait == InitExec /\ [][NextAwait]_vars

(***************************************************************************)
(* C36.  Within one turn the CALL_TOOL steps are executed one at a time,   *)
(* in plan order, and each tool's result is folded into the case before    *)
(* the next step starts: at most one call is in flight, the event after a  *)
(* call is issued is the fold of that call's result, the steps are taken   *)
(* up in the order 1, 2, 3, ..., and every step sees the case as the last  *)
(* fold left it.                                                           *)
(***************************************************************************)
\* the case as the folds before event i left it
CaseBefore(i) ==
    IF \E j \in 1..(i - 1) : history[j].event = "folded"
    THEN history[CHOOSE j \in 1..(i - 1) :
                    /\ history[j].event = "folded"
                    /\ \A k \in (j + 1)..(i - 1) : history[k].event # "folded"].case
    ELSE CaseOf(context, user_message)
C36_ToolsOneAtATime ==
    /\ Cardinality(InFlight) <= 1
    /\ \A i \in DOMAIN history :
          /\ (history[i].event = "start" /\ i < Len(history))
                => /\ history[i + 1].event = "folded"
                   /\ history[i + 1].index = history[i].index
          /\ IsStepEvent(history[i])
                => /\ history[i].index
                         = Len(SelectSeq(SubSeq(history, 1, i), IsStepEvent))
                   /\ history[i].case = CaseBefore(i)
          /\ history[i].event = "start"
                => plan.plan[history[i].index].step_type = "CALL_TOOL"
    /\ (pc = "done" /\ validate_plan(plan.plan))
          => /\ InFlight = {}
             /\ Len(run.calls)
                   = Len(SelectSeq(UpToFirstEnd(plan.plan), IsToolStep))
\* the second call of a plan was issued on the case the lookup before it had
\* been folded into
C36_Witness ==
    /\ pc = "done"
    /\ Len(history) = 4
    /\ context.product_type = None
    /\ IsCall(plan.plan[1], "get_warranty_record")
    /\ IsCall(plan.plan[2], "route_to_queue")
    /\ history[3].event = "start"
    /\ history[3].case.product_type = "HEAT"
    /\ history[4].event = "folded"

(***************************************************************************)
(* The timestamps of a CaseContext.  turns is the clock (datetime.now());  *)
(* run.case holds the other fields of the case; history records the        *)
(* mutations of the case: the operation, the time it ran at, whether it    *)
(* changed a field of the case, and the case's updated_at after it.        *)
(* created_at and updated_at are the construction time, 0.                 *)
(***************************************************************************)
MaxMutations == 3

UpdatedAt == IF history = <<>> THEN 0 ELSE history[Len(history)].updated_at
Mutation(op, at, changed, updated_at) ==
    [op |-> op, at |-> at, changed |-> changed, updated_at |-> updated_at]

\* the keyword arguments of an update() call: one attribute, or a name that
\* is no attribute of the model
UpdateArguments == {
    [key |-> "customer_decision", value |-> "PROCEED"],
    [key |-> "territory_checked", value |-> PyTrue],
    [key |-> "issue_description", value |-> "leak"] }

\* the results a CALL_TOOL step hands to the fold
StampSteps ==
    { step \in ExecSteps :
        /\ step.step_type = "CALL_TOOL"
        /\ step.tool_name \in {"get_warranty_record", "route_to_queue"} }

InitStamp ==
    /\ context \in ExecContexts
    /\ user_message = HeaterMakesNoise
    /\ plan = NoPlan
    /\ run = StartRun(CaseOf(context, user_message), EmptyWorld)
    /\ pc = "input"
    /\ OrchestratorIdle

\* CaseContext.add_user_message
AddUserMessage ==
    /\ Len(history) < MaxMutations
    /\ turns' = turns + 1
    /\ \E message \in {YesProceed, HeaterMakesNoise} :
          run' = [run EXCEPT !.case.user_messages = Append(@, message)]
    /\ history' = Append(history, Mutation("add_user_message", turns', TRUE, turns'))
    /\ UNCHANGED <<context, user_message, plan, pc, cases, stores>>

\* CaseContext.update(**kwargs)
UpdateCase ==
    /\ Len(history) < MaxMutations
    /\ turns' = turns + 1
    /\ \E kwargs \in UpdateArguments :
          run' = CASE kwargs.key = "customer_decision" ->
                        [run EXCEPT !.case.customer_decision = kwargs.value]
                   [] kwargs.key = "territory_checked" ->
                        [run EXCEPT !.case.territory_checked = kwargs.value]
                   [] OTHER -> run
    /\ history' = Append(history, Mutation("update", turns', run'.case # run.case, turns'))
    /\ UNCHANGED <<context, user_message, plan, pc, cases, stores>>

\* _execute_plan on a CALL_TOOL step: _execute_tool and
\* _update_case_from_tool_result, which assigns the fields and nothing else
FoldResult ==
    /\ Len(history) < MaxMutations
    /\ turns' = turns + 1
    /\ \E step \in StampSteps, elapsed \in ElapsedMonths :
          run' = execute_step(run, step, elapsed)
    /\ history' = Append(history, Mutation("fold", turns', run'.case # run.case, UpdatedAt))
    /\ UNCHANGED <<context, user_message, plan, pc, cases, stores>>

NextStamp == AddUserMessage \/ UpdateCase \/ FoldResult
SpecStamp == InitStamp /\ [][NextStamp]_vars

(***************************************************************************)
(* C37.  Every mutation of a case (add_user_message, update(), every fold  *)
(* of a tool result by the executor) refreshes updated_at: updated_at is   *)
(* never older than the last change to another field of the case.  The     *)
(* code violates it.                                                       *)
(***************************************************************************)
C37_UpdatedAtIsFresh ==
    \A i \in DOMAIN history :
        history[i].changed => UpdatedAt >= history[i].at

(***************************************************************************)
(* C38.  In every plan generate_plan produces, a step that ends the turn   *)
(* (ASK_USER_FOR_INFO or RETURN_ACTION) occurs at most once and only as    *)
(* the last step, and the plan is not empty; hence execute_plan leaves no  *)
(* step of a generated plan unexecuted: every CALL_TOOL step is called and *)
(* every other step gives its message.                                     *)
(***************************************************************************)
C38_TerminalStepIsLast ==
    /\ Planned
          => /\ plan.plan # <<>>
             /\ \A i \in DOMAIN plan.plan :
                   EndsTurn(plan.plan[i]) => i = Len(plan.plan)
             /\ validate_plan(plan.plan)
    /\ Executed
          => /\ Len(run.calls) = Len(SelectSeq(plan.plan, IsToolStep))
             /\ Len(run.calls) + Len(run.responses) = Len(plan.plan)
\* the escalation plan, whose last step is its RETURN_ACTION, was executed
\* to the end
C38_Witness ==
    /\ Executed
    /\ Len(plan.plan) = 2
    /\ plan.plan[1].step_type = "RESPOND_TO_USER"
    /\ plan.plan[2].step_type = "RETURN_ACTION"
    /\ Len(run.responses) = 2
    /\ run.stopped

(***************************************************************************)
(* Requests that arrive concurrently.  process_request is a coroutine: it  *)
(* finds or creates its case, awaits the workflow (the plan and its tool   *)
(* calls) and saves the case; the event loop may run another request at    *)
(* each await.  A slot is one process_request call in progress; run holds  *)
(* each slot's request and the key of its case object, pc each slot's      *)
(* position.  The case is an object shared with _cases, so what a step     *)
(* does to it is seen under its key at once.  history records the          *)
(* arrivals: the case_id asked for, the key of the case found or created,  *)
(* the message.                                                            *)
(***************************************************************************)
MaxRequests == 3
Slots == {1, 2}

ConcurrentRequests ==
    { request \in Requests :
        /\ request.logged_in /\ request.has_registered_products
        /\ request.product_id = "HEAT-001" /\ request.serial_number = None
        /\ request.product_name = None
        /\ request.location = [zip |-> "77001", city |-> None, state |-> "TX"]
        /\ request.user_message \in {<<>>, YesProceed, <<"N", "o">>} }

\* a slot with no request in progress
NoRequest ==
    [logged_in |-> FALSE, has_registered_products |-> FALSE,
     product_id |-> None, serial_number |-> None, product_name |-> None,
     location |-> EmptyLocation, case_id |-> NoId, user_message |-> <<>>]
NoTurn == [request |-> NoRequest, key |-> NoId]

InitConcurrent ==
    /\ OrchestratorIdle
    /\ context = to_dict(BlankCase)
    /\ user_message = <<>>
    /\ plan = NoPlan
    /\ run = [s \in Slots |-> NoTurn]
    /\ pc = [s \in Slots |-> "idle"]

\* process_request up to its first await: get_or_create_case
Arrive(s, request) ==
    /\ pc[s] = "idle"
    /\ turns < MaxRequests
    /\ LET got == get_or_create_case(request, cases, CaseId(turns + 1))
       IN  /\ cases' = got.cases
           /\ run' = [run EXCEPT ![s] = [request |-> request,
                                         key |-> got.case.case_id]]
           /\ history' = Append(history, [case_id |-> request.case_id,
                                          key |-> got.case.case_id,
                                          known |-> request.case_id \in DOMAIN cases,
                                          user_message |-> request.user_message])
    /\ turns' = turns + 1
    /\ pc' = [pc EXCEPT ![s] = "got"]
    /\ UNCHANGED <<context, user_message, plan, stores>>

\* await self.process_with_llm, self.client None: _execute_workflow on the
\* slot's case
Work(s) ==
    /\ pc[s] = "got"
    /\ \E elapsed \in ElapsedMonths :
         LET case == cases[run[s].key]
             planned == generate_plan(to_dict(case), run[s].request.user_message)
             ran == IF validate_plan(planned.plan)
                    THEN execute_plan(StartRun(case, stores), planned.plan, elapsed)
                    ELSE RejectPlan(StartRun(case, stores))
         IN  /\ cases' = [cases EXCEPT ![run[s].key] = ran.case]
             /\ stores' = ran.world
    /\ pc' = [pc EXCEPT ![s] = "worked"]
    /\ UNCHANGED <<context, user_message, plan, run, turns, history>>

\* self._cases[case.case_id] = case, and the response is returned
Save(s) ==
    /\ pc[s] = "worked"
    /\ cases' = save_case(cases, cases[run[s].key])
    /\ pc' = [pc EXCEPT ![s] = "idle"]
    /\ run' = [run EXCEPT ![s] = NoTurn]
    /\ UNCHANGED <<context, user_message, plan, stores, turns, history>>

NextConcurrent ==
    \E s \in Slots :
        \/ \E request \in ConcurrentRequests : Arrive(s, request)
        \/ Work(s)
        \/ Save(s)
SpecConcurrent == InitConcurrent /\ [][NextConcurrent]_vars

(***************************************************************************)
(* C39.  A turn processed for one case never changes the Case Context of   *)
(* another case, under any interleaving of the requests: a step of a       *)
(* request leaves every stored case but its own as it was and removes      *)
(* none; a request that names no stored case gets a case of its own, one   *)
(* that names a stored case gets that case; and the messages of a case are *)
(* exactly the messages of the requests that arrived for it, in order.     *)
(* The workflow of a request is run as the code runs it: through           *)
(* process_request its plan is the question for the product name (C8), so  *)
(* no tool result is folded and a case changes by its creation and its     *)
(* messages.                                                               *)
(***************************************************************************)
IsArrivalFor(id, arrival) == arrival.key = id /\ arrival.user_message # <<>>
RECURSIVE MessagesFor(_, _)
MessagesFor(id, arrivals) ==
    IF arrivals = <<>> THEN <<>>
    ELSE (IF IsArrivalFor(id, Head(arrivals))
          THEN <<Head(arrivals).user_message>> ELSE <<>>)
         \o MessagesFor(id, Tail(arrivals))
C39_OwnCaseOnly ==
    [][ \A s \in Slots :
          pc'[s] # pc[s]
            => LET key == IF pc[s] = "idle" THEN run'[s].key ELSE run[s].key
               IN  /\ \A id \in DOMAIN cases :
                        id # key => (id \in DOMAIN cases' /\ cases'[id] = cases[id])
                   /\ DOMAIN cases' \subseteq DOMAIN cases \cup {key}
                   /\ pc[s] = "idle"
                        => LET asked == run'[s].request.case_id
                           IN  IF asked \in DOMAIN cases
                               THEN key = asked
                               ELSE key \notin DOMAIN cases
                   /\ \A id \in DOMAIN cases' :
                        cases'[id].user_messages = MessagesFor(id, history') ]_vars
\* a request for the first case arrived and was worked on while the request
\* that created the second case was still in progress
C39_Witness ==
    /\ Len(history) = 3
    /\ history[1].key = CaseId(1) /\ history[2].key = CaseId(2)
    /\ history[3].case_id = CaseId(1) /\ history[3].key = CaseId(1)
    /\ \E s, t \in Slots :
          /\ pc[s] = "worked" /\ run[s].key = CaseId(1)
          /\ pc[t] = "got" /\ run[t].key = CaseId(2)
    /\ Len(cases[CaseId(1)].user_messages) = 2
    /\ Len(cases[CaseId(2)].user_messages) = 1

(***************************************************************************)
(* process_with_llm: one turn of the agentic loop.  pc is the position in  *)
(* the method, turns the number of LLM calls made in the turn, history the *)
(* outcome of each call ("tool_calls", "final", "raised") and, last, the   *)
(* rule-based workflow when the turn fell back to it ("workflow").  The    *)
(* LLM is free to answer anything: tool calls, a final message, or an      *)
(* exception of the client.  Tool results go back to the LLM and are not   *)
(* folded into the case.                                                   *)
(***************************************************************************)
max_iterations == 10

\* the tool calls an LLM response may ask for
LlmToolCalls ==
    { step \in ExecSteps :
        /\ step.step_type = "CALL_TOOL"
        /\ step.tool_name \in {"get_warranty_record", "route_to_queue", "send_fax"} }

LlmFinalResponse == Msg("llm_final_response")

\* _execute_workflow: _get_plan, _validate_plan, _execute_plan
execute_workflow(case, world, message, elapsed) ==
    LET planned == generate_plan(to_dict(case), message)
    IN  IF validate_plan(planned.plan)
        THEN execute_plan(StartRun(case, world), planned.plan, elapsed)
        ELSE RejectPlan(StartRun(case, world))

InitLlm ==
    /\ context \in ExecContexts
    /\ user_message \in {HeaterMakesNoise, YesProceed}
    /\ plan = NoPlan
    /\ run = StartRun(CaseOf(context, user_message), EmptyWorld)
    /\ pc \in {"client", "no_client"}
    /\ OrchestratorIdle

\* if not self.client: return await self._execute_workflow(case, user_message)
WorkflowWithoutClient ==
    /\ pc = "no_client"
    /\ \E elapsed \in ElapsedMonths :
          run' = execute_workflow(run.case, stores, user_message, elapsed)
    /\ stores' = run'.world
    /\ history' = Append(history, "workflow")
    /\ pc' = "done"
    /\ UNCHANGED <<context, user_message, plan, cases, turns>>

\* the messages are built and the loop is entered
EnterLoop ==
    /\ pc = "client"
    /\ pc' = "loop"
    /\ UNCHANGED <<context, user_message, plan, run, cases, stores, turns, history>>

\* an iteration whose response has tool calls: each is executed with
\* _execute_tool and its result appended to the messages; continue
LlmCallsTools ==
    /\ pc = "loop"
    /\ turns < max_iterations
    /\ turns' = turns + 1
    /\ \E step \in LlmToolCalls, elapsed \in ElapsedMonths :
          stores' = execute_tool(step.tool_name, step.tool_args, run.case,
                                 stores, elapsed).world
    /\ history' = Append(history, "tool_calls")
    /\ UNCHANGED <<context, user_message, plan, run, pc, cases>>

\* an iteration whose response has no tool calls: it is returned
LlmAnswers ==
    /\ pc = "loop"
    /\ turns < max_iterations
    /\ turns' = turns + 1
    /\ run' = [run EXCEPT !.responses = <<LlmFinalResponse>>, !.world = stores]
    /\ history' = Append(history, "final")
    /\ pc' = "done"
    /\ UNCHANGED <<context, user_message, plan, cases, stores>>

\* an iteration that raises: except Exception, break
LlmRaises ==
    /\ pc = "loop"
    /\ turns < max_iterations
    /\ turns' = turns + 1
    /\ history' = Append(history, "raised")
    /\ pc' = "fallback"
    /\ UNCHANGED <<context, user_message, plan, run, cases, stores>>

\* a loop that starts over when its iterations are used up
LoopStartsOver ==
    /\ pc = "loop"
    /\ turns = max_iterations
    /\ turns' = 0
    /\ history' = <<>>
    /\ UNCHANGED <<context, user_message, plan, run, pc, cases, stores>>

\* range(max_iterations) is used up
LoopExhausted ==
    /\ pc = "loop"
    /\ turns = max_iterations
    /\ pc' = "fallback"
    /\ UNCHANGED <<context, user_message, plan, run, cases, stores, turns, history>>

\* after the loop: return await self._execute_workflow(case, user_message)
FallBackToWorkflow ==
    /\ pc = "fallback"
    /\ \E elapsed \in ElapsedMonths :
          run' = execute_workflow(run.case, stores, user_message, elapsed)
    /\ stores' = run'.world
    /\ history' = Append(history, "workflow")
    /\ pc' = "done"
    /\ UNCHANGED <<context, user_message, plan, cases, turns>>

NextLlm ==
    WorkflowWithoutClient \/ EnterLoop \/ LlmCallsTools \/ LlmAnswers
    \/ LlmRaises \/ LoopExhausted \/ FallBackToWorkflow
\* every LLM call returns or raises, and a coroutine that can go on does
SpecLlm == InitLlm /\ [][NextLlm]_vars /\ WF_vars(NextLlm)

(***************************************************************************)
(* C40.  process_with_llm always terminates.  It makes at most 10 LLM      *)
(* calls in a turn and returns the first LLM response that has no tool     *)
(* calls; when the 10 iterations are used up or an iteration raises it     *)
(* falls back to the rule-based workflow, and with no LLM client it runs   *)
(* the rule-based workflow directly, without any LLM call.                 *)
(***************************************************************************)
AllToolCalls(outcomes) == \A i \in DOMAIN outcomes : outcomes[i] = "tool_calls"
Front(s) == SubSeq(s, 1, Len(s) - 1)
\* what the rule-based workflow answers on the case of the turn
WorkflowResults ==
    { execute_workflow(CaseOf(context, user_message), EmptyWorld, user_message,
                       elapsed).responses : elapsed \in ElapsedMonths }
LlmTurnIsBounded ==
    /\ turns <= max_iterations
    /\ Len(history) <= max_iterations + 1
    /\ pc = "done"
          => /\ history # <<>>
             /\ LET last == history[Len(history)]
                    calls == Front(history)
                IN  \/ /\ last = "final"
                       /\ AllToolCalls(calls)
                       /\ turns = Len(history)
                       /\ run.responses = <<LlmFinalResponse>>
                    \/ /\ last = "workflow"
                       /\ run.responses \in WorkflowResults
                       /\ \/ calls = <<>> /\ turns = 0
                          \/ /\ Len(calls) = max_iterations
                             /\ AllToolCalls(calls)
                             /\ turns = max_iterations
                          \/ /\ calls # <<>>
                             /\ calls[Len(calls)] = "raised"
                             /\ AllToolCalls(Front(calls))
                             /\ turns = Len(calls)
====
